---- MODULE Spec2Model ----
(***************************************************************************)
(* Researcher: the metadata resolution and relevance pipeline of           *)
(* src/main.rs (DOIScraper) with the results file it appends to.           *)
(*                                                                         *)
(* Text is modelled as a sequence of one-character strings, so that the    *)
(* string operations of the code (trim, split, contains, starts_with, the  *)
(* DOI regex, float parsing) are computed and not assumed.                 *)
(***************************************************************************)
EXTENDS Integers, Sequences, FiniteSets, TLC

(***************************************************************************)
(* Characters and strings                                                  *)
(***************************************************************************)
Digits == {"0", "1", "2", "3", "4", "5", "6", "7", "8", "9"}

LowerLetters ==
    {"a", "b", "c", "d", "e", "f", "g", "h", "i", "j", "k", "l", "m",
     "n", "o", "p", "q", "r", "s", "t", "u", "v", "w", "x", "y", "z"}

UpperLetters ==
    {"A", "B", "C", "D", "E", "F", "G", "H", "I", "J", "K", "L", "M",
     "N", "O", "P", "Q", "R", "S", "T", "U", "V", "W", "X", "Y", "Z"}

\* char::is_whitespace, restricted to the ASCII white space the inputs use
Whitespace == {" ", "\n", "\t", "\r"}

\* The pairs (lower, upper) of the letters that occur in the inputs.
UpperOf ==
    [c \in LowerLetters |->
        CASE c = "a" -> "A" [] c = "b" -> "B" [] c = "c" -> "C" [] c = "d" -> "D"
          [] c = "e" -> "E" [] c = "f" -> "F" [] c = "g" -> "G" [] c = "h" -> "H"
          [] c = "i" -> "I" [] c = "j" -> "J" [] c = "k" -> "K" [] c = "l" -> "L"
          [] c = "m" -> "M" [] c = "n" -> "N" [] c = "o" -> "O" [] c = "p" -> "P"
          [] c = "q" -> "Q" [] c = "r" -> "R" [] c = "s" -> "S" [] c = "t" -> "T"
          [] c = "u" -> "U" [] c = "v" -> "V" [] c = "w" -> "W" [] c = "x" -> "X"
          [] c = "y" -> "Y" [] c = "z" -> "Z"]

\* str::to_uppercase
to_uppercase(s) ==
    [k \in 1..Len(s) |-> IF s[k] \in LowerLetters THEN UpperOf[s[k]] ELSE s[k]]

\* s[a..b] as a string (empty when a > b)
Slice(s, a, b) == IF a > b THEN << >> ELSE SubSeq(s, a, b)

\* s[from..]
DropFirst(s, n) == Slice(s, n + 1, Len(s))

\* str::starts_with
starts_with(s, p) == Len(p) <= Len(s) /\ SubSeq(s, 1, Len(p)) = p

\* str::ends_with
ends_with(s, p) == Len(p) <= Len(s) /\ SubSeq(s, Len(s) - Len(p) + 1, Len(s)) = p

\* The first index at which p occurs in s, 0 when it does not (str::find)
IndexOf(s, p) ==
    LET hits == {k \in 1..(Len(s) - Len(p) + 1) :
                    \A j \in 1..Len(p) : s[k + j - 1] = p[j]}
    IN IF hits = {} THEN 0 ELSE CHOOSE k \in hits : \A j \in hits : k <= j

\* str::contains
contains(s, p) == IndexOf(s, p) # 0

\* str::trim_start / trim_end / trim
trim_start(s) ==
    LET keep == {k \in 1..Len(s) : s[k] \notin Whitespace}
    IN IF keep = {} THEN << >>
       ELSE Slice(s, CHOOSE k \in keep : \A j \in keep : k <= j, Len(s))

trim_end(s) ==
    LET keep == {k \in 1..Len(s) : s[k] \notin Whitespace}
    IN IF keep = {} THEN << >>
       ELSE Slice(s, 1, CHOOSE k \in keep : \A j \in keep : k >= j)

trim(s) == trim_end(trim_start(s))

\* str::split(pat): the parts between the non-overlapping occurrences of pat,
\* found left to right; always at least one part.
RECURSIVE split(_, _)
split(s, p) ==
    LET k == IndexOf(s, p)
    IN IF k = 0 THEN <<s>>
       ELSE <<Slice(s, 1, k - 1)>> \o split(DropFirst(s, k + Len(p) - 1), p)

\* Option<T>: None is the empty set, Some(x) the set {x}
None == {}

Some(x) == {x}

is_some(o) == o # {}

is_none(o) == o = {}

unwrap(o) == CHOOSE x \in o : TRUE

\* Iterator::nth(n) (0-based) of a sequence of parts
nth(parts, n) == IF n + 1 <= Len(parts) THEN Some(parts[n + 1]) ELSE None

\* str::lines(): split at "\n", a final empty piece is dropped, a trailing
\* "\r" of a line is removed
StripCr(l) == IF ends_with(l, <<"\r">>) THEN Slice(l, 1, Len(l) - 1) ELSE l

lines(s) ==
    LET parts == split(s, <<"\n">>)
        kept  == IF parts[Len(parts)] = << >>
                 THEN Slice(parts, 1, Len(parts) - 1) ELSE parts
    IN [k \in 1..Len(kept) |-> StripCr(kept[k])]

\* str::split_whitespace(): the maximal runs of non-white-space characters
RECURSIVE split_whitespace(_)
split_whitespace(s) ==
    LET t == trim_start(s)
        ws == {k \in 1..Len(t) : t[k] \in Whitespace}
        e == IF ws = {} THEN Len(t) + 1 ELSE CHOOSE k \in ws : \A j \in ws : k <= j
    IN IF t = << >> THEN << >>
       ELSE <<Slice(t, 1, e - 1)>> \o split_whitespace(DropFirst(t, e - 1))

\* [T]::join(sep)
RECURSIVE join(_, _)
join(parts, sep) ==
    IF Len(parts) = 0 THEN << >>
    ELSE IF Len(parts) = 1 THEN parts[1]
    ELSE parts[1] \o sep \o join(Tail(parts), sep)

\* "c".repeat(n)
repeat(c, n) == [k \in 1..n |-> c]

(***************************************************************************)
(* Identifier Extractor (main.rs 241, 298-341)                             *)
(***************************************************************************)
Https == <<"h", "t", "t", "p", "s", ":", "/", "/">>

Http == <<"h", "t", "t", "p", ":", "/", "/">>

DoiOrgSlash == <<"d", "o", "i", ".", "o", "r", "g", "/">>

DoiColon == <<"d", "o", "i", ":">>

ArxivOrg == <<"a", "r", "x", "i", "v", ".", "o", "r", "g">>

AbsSeg == <<"/", "a", "b", "s", "/">>

PdfSeg == <<"/", "p", "d", "f", "/">>

DotPdf == <<".", "p", "d", "f">>

ArxivPrefix == <<"a", "r", "X", "i", "v", ":">>

\* The character class [-._;()/:A-Za-z0-9] of doi_regex
DoiChars ==
    {"-", ".", "_", ";", "(", ")", "/", ":"} \cup UpperLetters \cup LowerLetters \cup Digits

\* The length of the longest run of characters of class cls starting at s[k]
RunLen(s, k, cls) ==
    LET stops == {j \in k..Len(s) : s[j] \notin cls}
    IN IF stops = {} THEN Len(s) - k + 1
       ELSE (CHOOSE j \in stops : \A q \in stops : j <= q) - k

\* doi_regex with the digit count misread as {5,9}
DoiMatchEndFiveDigits(s, k) ==
    IF ~(k + 2 <= Len(s) /\ s[k] = "1" /\ s[k + 1] = "0" /\ s[k + 2] = ".")
    THEN 0
    ELSE LET nd == RunLen(s, k + 3, Digits)
             sl == k + 3 + nd
         IN IF nd >= 5 /\ nd <= 9 /\ sl <= Len(s) /\ s[sl] = "/"
                /\ RunLen(s, sl + 1, DoiChars) >= 1
            THEN sl + RunLen(s, sl + 1, DoiChars)
            ELSE 0

\* doi_regex 10\.\d{4,9}/[-._;()/:A-Za-z0-9]+ matched at position k: the index
\* of the last character of the (greedy) match, 0 when there is no match at k.
DoiMatchEnd(s, k) ==
    IF ~(k + 2 <= Len(s) /\ s[k] = "1" /\ s[k + 1] = "0" /\ s[k + 2] = ".")
    THEN 0
    ELSE LET nd == RunLen(s, k + 3, Digits)
             sl == k + 3 + nd
         IN IF nd >= 4 /\ nd <= 9 /\ sl <= Len(s) /\ s[sl] = "/"
                /\ RunLen(s, sl + 1, DoiChars) >= 1
            THEN sl + RunLen(s, sl + 1, DoiChars)
            ELSE 0

\* Regex::is_match
doi_regex_is_match(s) == \E k \in 1..Len(s) : DoiMatchEnd(s, k) # 0

\* Regex::find: the leftmost match, as Option<String>
doi_regex_find(s) ==
    LET starts == {k \in 1..Len(s) : DoiMatchEnd(s, k) # 0}
    IN IF starts = {} THEN None
       ELSE LET k == CHOOSE a \in starts : \A b \in starts : a <= b
            IN Some(Slice(s, k, DoiMatchEnd(s, k)))

clean_doi(doi) ==
    LET c0 == trim(doi)
        c1 == IF starts_with(c0, Https \o DoiOrgSlash) THEN DropFirst(c0, 16)
              ELSE IF starts_with(c0, Http \o DoiOrgSlash) THEN DropFirst(c0, 15)
              ELSE c0
        c2 == IF starts_with(c1, DoiColon) THEN DropFirst(c1, 4) ELSE c1
    IN trim(c2)

extract_doi_from_text(text) ==
    LET m == doi_regex_find(text)
    IN IF is_some(m) THEN Some(clean_doi(unwrap(m))) ELSE None

\* str::trim_end_matches(pat): pat removed from the end as often as it occurs
RECURSIVE trim_end_matches(_, _)
trim_end_matches(s, p) ==
    IF Len(p) > 0 /\ ends_with(s, p)
    THEN trim_end_matches(Slice(s, 1, Len(s) - Len(p)), p)
    ELSE s

\* The arXiv branch of extract_doi_from_url (main.rs 331-338)
ArxivId(url) ==
    LET a == nth(split(url, AbsSeg), 1)
        seg == IF is_some(a) THEN a ELSE nth(split(url, PdfSeg), 1)
    IN IF contains(url, ArxivOrg) /\ is_some(seg)
       THEN Some(ArxivPrefix \o
                 trim_end_matches(split(unwrap(seg), <<"?">>)[1], DotPdf))
       ELSE None

\* The doi.org branch of extract_doi_from_url (main.rs 322-329)
DoiOrgId(url) ==
    LET part == nth(split(url, DoiOrgSlash), 1)
    IN IF contains(url, DoiOrgSlash) /\ is_some(part)
          /\ doi_regex_is_match(clean_doi(unwrap(part)))
       THEN Some(clean_doi(unwrap(part)))
       ELSE None

extract_doi_from_url(url) ==
    IF is_some(DoiOrgId(url)) THEN DoiOrgId(url)
    ELSE IF is_some(ArxivId(url)) THEN ArxivId(url)
    ELSE extract_doi_from_text(url)

(***************************************************************************)
(* Relevance Validator (main.rs 524-578)                                   *)
(*                                                                         *)
(* An f32 is kept as an integer number of hundredths: the texts the model  *)
(* service returns here carry at most two decimals and neither an exponent *)
(* nor inf/nan, so the value and the order of the parsed floats are exact. *)
(***************************************************************************)
DigitVal ==
    [c \in Digits |->
        CASE c = "0" -> 0 [] c = "1" -> 1 [] c = "2" -> 2 [] c = "3" -> 3
          [] c = "4" -> 4 [] c = "5" -> 5 [] c = "6" -> 6 [] c = "7" -> 7
          [] c = "8" -> 8 [] c = "9" -> 9]

\* The value of a (possibly empty) string of decimal digits
RECURSIVE DecVal(_)
DecVal(ds) ==
    IF Len(ds) = 0 THEN 0
    ELSE 10 * DecVal(Slice(ds, 1, Len(ds) - 1)) + DigitVal[ds[Len(ds)]]

\* The hundredths written by the digits after the decimal point
FracVal(ds) ==
    IF Len(ds) = 0 THEN 0
    ELSE IF Len(ds) = 1 THEN 10 * DigitVal[ds[1]]
    ELSE 10 * DigitVal[ds[1]] + DigitVal[ds[2]]

\* str::parse::<f32>() on the decimal syntax [+-]? (digits [. digits?] | . digits):
\* Some(value in hundredths), None when the text is not a number. White space
\* is not skipped and the empty string, "+", "-" and "." are no numbers.
parse_f32(w) ==
    LET signed == Len(w) > 0 /\ w[1] \in {"+", "-"}
        body == IF signed THEN DropFirst(w, 1) ELSE w
        ni == RunLen(body, 1, Digits)
        rest == DropFirst(body, ni)
        hasdot == Len(rest) > 0 /\ rest[1] = "."
        frac == IF hasdot THEN DropFirst(rest, 1) ELSE << >>
        nf == RunLen(frac, 1, Digits)
        okay == /\ ni + nf >= 1
                /\ IF hasdot THEN nf = Len(frac) ELSE Len(rest) = 0
        mag == 100 * DecVal(Slice(body, 1, ni)) + FracVal(frac)
    IN IF ~okay THEN None
       ELSE Some(IF signed /\ w[1] = "-" THEN 0 - mag ELSE mag)

ScoreKey == <<"S", "C", "O", "R", "E", ":">>

ReasonKey == <<"R", "E", "A", "S", "O", "N", ":">>

AiDisabledReason == <<"A", "I", " ", "d", "i", "s", "a", "b", "l", "e", "d", " ", "-", "_", "-">>

AiErrorReason == <<"A", "I", " ", "e", "r", "r", "o", "r", ",", " ", "a", "c", "c", "e", "p", "t", "e", "d", " ", "b", "y", " ", "d", "e", "f", "a", "u", "l", "t">>

\* Iterator::find over the lines of a text: the first line whose upper-cased
\* form contains key, as Option<String>
FindLine(ls, key) ==
    LET hits == {k \in 1..Len(ls) : contains(to_uppercase(ls[k]), key)}
    IN IF hits = {} THEN None
       ELSE Some(ls[CHOOSE k \in hits : \A j \in hits : k <= j])

\* Iterator::find_map(|word| word.parse::<f32>().ok()) over the tokens
FindMapParse(words) ==
    LET hits == {k \in 1..Len(words) : is_some(parse_f32(words[k]))}
    IN IF hits = {} THEN None
       ELSE parse_f32(words[CHOOSE k \in hits : \A j \in hits : k <= j])

\* Option::unwrap_or
unwrap_or(o, d) == IF is_some(o) THEN unwrap(o) ELSE d

\* main.rs 551-560: the score read from the trimmed response text
ParseScore(text) ==
    LET score_line == FindLine(lines(text), ScoreKey)
    IN IF is_some(score_line)
       THEN LET part == nth(split(unwrap(score_line), <<":">>), 1)
            IN IF is_some(part)
               THEN unwrap_or(parse_f32(trim(unwrap(part))), 50)
               ELSE 50
       ELSE unwrap_or(FindMapParse(split_whitespace(text)), 50)

\* The reason taken as the part between the first and the second colon only
ParseReasonFirstPart(text) ==
    LET reason_line == FindLine(lines(text), ReasonKey)
    IN IF is_some(reason_line)
       THEN trim(unwrap_or(nth(split(unwrap(reason_line), <<":">>), 1), << >>))
       ELSE LET ls == lines(text)
            IN trim(join(IF Len(ls) = 0 THEN << >> ELSE Tail(ls), <<" ">>))

\* main.rs 562-566: the reason read from the trimmed response text
ParseReason(text) ==
    LET reason_line == FindLine(lines(text), ReasonKey)
    IN IF is_some(reason_line)
       THEN trim(join(Tail(split(unwrap(reason_line), <<":">>)), <<":">>))
       ELSE LET ls == lines(text)
            IN trim(join(IF Len(ls) = 0 THEN << >> ELSE Tail(ls), <<" ">>))

\* The acceptance test with a strict comparison
IsRelevantAbove(score, min_score) == score > min_score

\* main.rs 568: the acceptance test
IsRelevant(score, min_score) == score >= min_score

\* The default score of a failed model call put to the acceptance test
AiErrorVerdictByThreshold(min_score) ==
    [ok |-> TRUE, is_relevant |-> 70 >= min_score, score |-> 70,
     reason |-> AiErrorReason]

\* main.rs 571-576: the verdict on a failed model call
AiErrorVerdict(min_score) ==
    [ok |-> TRUE, is_relevant |-> TRUE, score |-> 70, reason |-> AiErrorReason]

\* The outcome of ollama.generate(request): an error, or a response text
GenErr == [ok |-> FALSE]

GenOk(response) == [ok |-> TRUE, response |-> response]

\* validate_with_ai: ollama is self.ollama (None when no client was built),
\* gen the outcome of the model call. The result is Ok((is_relevant, score,
\* reason)); ok = FALSE would be an Err returned to the caller.
validate_with_ai(ollama_, min_score, title, abstract_text, subject, gen) ==
    IF is_none(ollama_)
    THEN [ok |-> TRUE, is_relevant |-> TRUE, score |-> 110,
          reason |-> AiDisabledReason]
    ELSE IF gen.ok
    THEN LET text == trim(gen.response)
             score == ParseScore(text)
         IN [ok |-> TRUE, is_relevant |-> IsRelevant(score, min_score),
             score |-> score, reason |-> ParseReason(text)]
    ELSE AiErrorVerdict(min_score)

(***************************************************************************)
(* Dedup Store (main.rs 286-296, 673-699)                                  *)
(*                                                                         *)
(* The results file is kept as the sequence of its lines: every write of   *)
(* save_doi is a writeln!, so the file is always a sequence of whole lines.*)
(***************************************************************************)
DigitChar ==
    [d \in 0..9 |->
        CASE d = 0 -> "0" [] d = 1 -> "1" [] d = 2 -> "2" [] d = 3 -> "3"
          [] d = 4 -> "4" [] d = 5 -> "5" [] d = 6 -> "6" [] d = 7 -> "7"
          [] d = 8 -> "8" [] d = 9 -> "9"]

\* A natural number in decimal
RECURSIVE NatToStr(_)
NatToStr(n) ==
    IF n < 10 THEN <<DigitChar[n]>>
    ELSE NatToStr(n \div 10) \o <<DigitChar[n % 10]>>

\* format!("{:.2}", score) of a score kept in hundredths
FormatScore(score) ==
    LET mag == IF score < 0 THEN 0 - score ELSE score
    IN (IF score < 0 THEN <<"-">> ELSE << >>)
       \o NatToStr(mag \div 100)
       \o <<".", DigitChar[(mag \div 10) % 10], DigitChar[mag % 10]>>

NA == <<"N", "A">>

DoiLabel == <<"D", "O", "I", ":", " ">>

TitleLabel == <<"T", "i", "t", "l", "e", ":", " ">>

UrlLabel == <<"U", "R", "L", ":", " ">>

ScoreLabel == <<"S", "c", "o", "r", "e", ":", " ">>

SavedLabel == <<"S", "a", "v", "e", "d", ":", " ">>

AbstractLabel == <<"A", "b", "s", "t", "r", "a", "c", "t", ":">>

\* "=".repeat(70)
separator == repeat("=", 70)

\* chrono::Local::now().format("%Y-%m-%d %H:%M:%S"): one fixed instant
Timestamp == <<"2", "0", "2", "5", "-", "0", "1", "-", "0", "1", " ", "0", "0", ":", "0", "0", ":", "0", "0">>

\* The lines one writeln!(file, text) appends to the file
Writeln(text) == lines(text \o <<"\n">>)

\* The eight writeln! calls of save_doi (main.rs 688-695), in order
BlockWrites(paper) ==
    << Writeln(<<"\n">> \o separator),
       Writeln(DoiLabel \o unwrap_or(paper.doi, NA)),
       Writeln(TitleLabel \o paper.title),
       Writeln(UrlLabel \o paper.url),
       Writeln(ScoreLabel \o FormatScore(paper.relevance_score)),
       Writeln(SavedLabel \o Timestamp),
       Writeln(AbstractLabel \o <<"\n">> \o paper.abstract_text),
       Writeln(separator \o <<"\n">>) >>

\* The lines appended when the first w writes succeed
RECURSIVE WrittenLines(_, _)
WrittenLines(writes, w) ==
    IF w = 0 THEN << >> ELSE WrittenLines(writes, w - 1) \o writes[w]

\* The number of writeln! calls of save_doi
NumWrites == 8

\* The first '|'-field of every line taken as it stands
load_processed_dois_untrimmed(file) ==
    {split(file[k], <<"|">>)[1] : k \in 1..Len(file)}

\* load_processed_dois: the trimmed first '|'-field of every line of the file
load_processed_dois(file) ==
    {trim(split(file[k], <<"|">>)[1]) : k \in 1..Len(file)}

\* save_doi without the insertion into the set
SaveDoiNoInsert(dois, paper) == dois

\* The placeholder inserted for a paper without identifier
SaveDoiInsertPlaceholder(dois, paper) == dois \cup {unwrap_or(paper.doi, NA)}

\* save_doi, the in-memory part (main.rs 676-678)
SaveDoiInsert(dois, paper) ==
    IF is_some(paper.doi) THEN dois \cup {unwrap(paper.doi)} ELSE dois

\* The block written in front of the file
SaveDoiPrepend(file, paper, w) == WrittenLines(BlockWrites(paper), w) \o file

\* save_doi, the file part (main.rs 680-695): w is the number of writeln!
\* calls that succeed (0: the open or the first write fails; NumWrites: all)
SaveDoiAppend(file, paper, w) == file \o WrittenLines(BlockWrites(paper), w)

(***************************************************************************)
(* Metadata Resolver: the identifier-lookup chain (main.rs 343-441)        *)
(*                                                                         *)
(* What a source answers is an input. "fail" is every answer the code      *)
(* treats as no data (send error, timeout, non-2xx, undecodable body, no   *)
(* DOI key); "ok" carries the title and the abstract read from the body;   *)
(* "empty_array" is a doi.org body whose title is the empty array [].      *)
(***************************************************************************)
SrcFail == [kind |-> "fail", title |-> << >>, abstract |-> << >>]

SrcOk(title, abstract) == [kind |-> "ok", title |-> title, abstract |-> abstract]

SrcEmptyArray == [kind |-> "empty_array", title |-> << >>, abstract |-> << >>]

\* A source yields a result when it answers with a non-empty title
SrcYields(o) == o.kind = "ok" /\ o.title # << >>

\* fetch_doi_metadata over the answers <<doi.org, CrossRef, DataCite>>:
\* panic (arr[0] on an empty title array, main.rs 363), or Ok((title,
\* abstract)) of the first source that yields, or Err; contacted is the
\* number of sources asked.
fetch_doi_metadata(api) ==
    IF api[1].kind = "empty_array"
    THEN [panic |-> TRUE, ok |-> FALSE, title |-> << >>, abstract |-> << >>,
          contacted |-> 1]
    ELSE IF SrcYields(api[1])
    THEN [panic |-> FALSE, ok |-> TRUE, title |-> api[1].title,
          abstract |-> api[1].abstract, contacted |-> 1]
    ELSE IF SrcYields(api[2])
    THEN [panic |-> FALSE, ok |-> TRUE, title |-> api[2].title,
          abstract |-> api[2].abstract, contacted |-> 2]
    ELSE IF SrcYields(api[3])
    THEN [panic |-> FALSE, ok |-> TRUE, title |-> api[3].title,
          abstract |-> api[3].abstract, contacted |-> 3]
    ELSE [panic |-> FALSE, ok |-> FALSE, title |-> << >>, abstract |-> << >>,
          contacted |-> 3]

(***************************************************************************)
(* Page scraping (main.rs 443-522), as the result fetch_page_content       *)
(* returns: Err, or Ok((abstract_text, doi)).                              *)
(***************************************************************************)
PageErr == [ok |-> FALSE, abstract |-> << >>, doi |-> None]

PageOk(abstract, doi) == [ok |-> TRUE, abstract |-> abstract, doi |-> doi]

(***************************************************************************)
(* process_result (main.rs 580-671)                                        *)
(***************************************************************************)
NoAiReason == <<"A", "I", " ", "d", "i", "s", "a", "b", "l", "e", "d">>

\* main.rs 590: whether the page is scraped
NeedsScrape(doi, abstract_text) == is_none(doi) \/ Len(abstract_text) < 100

\* A new abstract taken whenever it is not empty
ImprovesWhenNonEmpty(new, current) == new # << >>

\* main.rs 598 and 620: a new abstract replaces the current one
Improves(new, current) == new # << >> /\ Len(new) > Len(current)

\* The dedup check left out
AlreadyProcessedNever(dois, doi) == FALSE

\* main.rs 607: the dedup check
AlreadyProcessed(dois, doi) == is_some(doi) /\ unwrap(doi) \in dois

\* The lookup chain started for every known identifier
NeedsApiWhenKnown(doi, abstract_text) == is_some(doi)

\* main.rs 612: whether the lookup chain is started
NeedsApi(doi, abstract_text) == is_some(doi) /\ Len(abstract_text) < 100

\* main.rs 629-640: the final title fallback
FinalAbstract(abstract_text, title) ==
    IF Len(abstract_text) > 50 THEN abstract_text ELSE title

\* main.rs 642-647: the verdict; validate_with_ai is called when use_ai holds
Verdict(use_ai_, ollama_, min_score, title, abstract_text, subject, gen) ==
    IF use_ai_
    THEN validate_with_ai(ollama_, min_score, title, abstract_text, subject, gen)
    ELSE [ok |-> TRUE, is_relevant |-> TRUE, score |-> 80, reason |-> NoAiReason]

\* ScientificPaper of the call's record in progress
PaperOf(st) ==
    [title |-> st.title, url |-> st.url, doi |-> st.doi,
     abstract_text |-> st.abstract_text, relevance_score |-> st.score]

\* process_result is a sequence of stages over the record in progress st:
\* title, url, doi, abstract_text as the code's locals; kind the way the call
\* ends ("open" while it goes on); events the stages gone through, in order.
\*   "skipped"  Ok(None) at the dedup check (main.rs 609)
\*   "rejected" Ok(None) after scoring (main.rs 659)
\*   "accepted" Ok(Some(paper))
\*   "error"    Err, the verdict call failed (main.rs 644)
\*   "panic"    the call did not return

\* main.rs 586-588
ExtractStage(result) ==
    [title |-> result.title, url |-> result.url,
     doi |-> extract_doi_from_url(result.url),
     abstract_text |-> result.content,
     kind |-> "open", scored |-> FALSE, is_relevant |-> FALSE, score |-> 0,
     events |-> <<"extract">>]

\* main.rs 590-602: page is what fetch_page_content returns
ScrapeStage(st, page) ==
    IF ~NeedsScrape(st.doi, st.abstract_text) THEN st
    ELSE [st EXCEPT
            !.events = @ \o <<"scrape">>,
            !.doi = IF page.ok /\ is_none(@) THEN page.doi ELSE @,
            !.abstract_text = IF page.ok /\ Improves(page.abstract, @)
                              THEN page.abstract ELSE @]

\* main.rs 604-610
DedupStage(st, dois) ==
    IF is_none(st.doi) THEN st
    ELSE [st EXCEPT
            !.events = @ \o <<"dedup_check">>,
            !.kind = IF AlreadyProcessed(dois, st.doi) THEN "skipped" ELSE @]

\* main.rs 612-624: meta is what fetch_doi_metadata returns
MergeMeta(st, meta) ==
    [st EXCEPT
       !.events = @ \o [k \in 1..meta.contacted |-> "api"],
       !.kind = IF meta.panic THEN "panic" ELSE @,
       !.title = IF meta.ok /\ meta.title # << >> THEN meta.title ELSE @,
       !.abstract_text = IF meta.ok /\ Improves(meta.abstract, @)
                         THEN meta.abstract ELSE @]

ApiStage(st, api) ==
    IF st.kind = "open" /\ NeedsApi(st.doi, st.abstract_text)
    THEN MergeMeta(st, fetch_doi_metadata(api))
    ELSE st

\* main.rs 629-640
FallbackStage(st) ==
    IF st.kind = "open"
    THEN [st EXCEPT !.abstract_text = FinalAbstract(@, st.title)]
    ELSE st

\* The verdict applied without the return on a candidate that is not relevant
ApplyVerdictAlwaysAccepted(st, v, called) ==
    [st EXCEPT
       !.scored = TRUE,
       !.is_relevant = v.ok /\ v.is_relevant,
       !.score = IF v.ok THEN v.score ELSE 0,
       !.kind = IF ~v.ok THEN "error" ELSE "accepted",
       !.events = @ \o <<"score">>
                    \o (IF called THEN <<"model_call">> ELSE << >>)
                    \o <<"sleep300">>]

\* main.rs 642-662: v is the verdict
ApplyVerdict(st, v, called) ==
    [st EXCEPT
       !.scored = TRUE,
       !.is_relevant = v.ok /\ v.is_relevant,
       !.score = IF v.ok THEN v.score ELSE 0,
       !.kind = IF ~v.ok THEN "error"
                ELSE IF v.is_relevant THEN "accepted" ELSE "rejected",
       !.events = @ \o <<"score">>
                    \o (IF called THEN <<"model_call">> ELSE << >>)
                    \o (IF v.ok /\ v.is_relevant THEN <<"sleep300">> ELSE << >>)]

ScoreStage(st, use_ai_, ollama_, min_score, subject, gen) ==
    IF st.kind = "open"
    THEN ApplyVerdict(st,
                      Verdict(use_ai_, ollama_, min_score, st.title,
                              st.abstract_text, subject, gen),
                      use_ai_ /\ is_some(ollama_))
    ELSE st

(***************************************************************************)
(* State                                                                   *)
(***************************************************************************)
VARIABLES
    store,              \* the lines of the results file (args.output)
    pc,                 \* where the process is: "none", "ready", "running",
                        \* "done", "failed" (run returned Err), "panicked"
    args,               \* Args: no_ai, min_score, max_results
    ollama,             \* DOIScraper.ollama: Option<Ollama>
    use_ai,             \* DOIScraper.use_ai
    processed_dois,     \* DOIScraper.processed_dois
    results_to_process, \* run: the candidates of this run
    idx,                \* run: the number of candidates gone through
    validated,          \* run: the counters of the summary
    saved,
    skipped,
    last,               \* what the last loop iteration of run did (history)
    run_base,           \* Len(store) when this run loaded it (history)
    starts,             \* the number of processes started (history)
    write_failures,     \* the number of failed store writes (history)
    handed,             \* the number of candidates handed to runs (history)
    saves,              \* the calls of save_doi so far (history)
    searched,           \* what search_searxng returned to this run: "none"
                        \* (not called yet), "ok", "err" (history)
    vpc,                \* a function applied alone: "idle", "called", "returned"
    vin,                \* a function applied alone: its inputs
    vout,               \* a function applied alone: its result
    logs,               \* the progress-log buffer (Arc<Mutex<Vec<String>>>)
    holder,             \* the thread that holds the lock of logs, or "free"
    lpc,                \* where each thread is in its append to logs
    appended,           \* the number of entries pushed to logs so far (history)
    tasks               \* the background runs spawned by the /search route

vars ==
    <<store, pc, args, ollama, use_ai, processed_dois, results_to_process, idx,
      validated, saved, skipped, last, run_base, starts, write_failures, handed,
      saves, searched, vpc, vin, vout, logs, holder, lpc, appended, tasks>>

logVars == <<logs, holder, lpc, appended>>

runVars ==
    <<store, pc, args, ollama, use_ai, processed_dois, results_to_process, idx,
      validated, saved, skipped, last, run_base, starts, write_failures, handed,
      saves, searched>>

(***************************************************************************)
(* Bounds and inputs                                                       *)
(***************************************************************************)
\* The most processes started one after the other on the same results file
MaxStarts == 2

\* The most candidates the search hands to one run
MaxCands == 2

\* The most candidates handed to all runs together
MaxHanded == 2

\* The most store writes that fail
MaxWriteFailures == 1

Subject == <<"m", "l">>

TitleX == <<"X">>

TitleApi == <<"A", "p", "i", " ", "T">>

IdA == <<"1", "0", ".", "1", "2", "3", "4", "/", "a">>

\* https://doi.org/10.1234/a
UrlDoiA == Https \o DoiOrgSlash \o IdA

IdShort == <<"1", "0", ".", "1", "/", "a", "b", "c">>

\* https://doi.org/10.1/abc
UrlDoiShort == Https \o DoiOrgSlash \o IdShort

\* The candidates the search client can return
Candidates ==
    { [title |-> TitleX, url |-> UrlDoiA, content |-> repeat("s", 80)],
      [title |-> TitleX, url |-> UrlDoiShort, content |-> repeat("s", 80)],
      [title |-> TitleX, url |-> UrlDoiA, content |-> repeat("s", 120)] }

\* content of a citation_doi meta tag
MetaDoi == <<"d", "o", "i", ":", "1", "0", ".", "5", "5", "5", "5", "/", "b">>

\* The identifier of that meta tag
IdB == <<"1", "0", ".", "5", "5", "5", "5", "/", "b">>

\* What fetch_page_content can return
PageOutcomes ==
    { PageErr,
      PageOk(repeat("p", 60), extract_doi_from_text(MetaDoi)),
      PageOk(repeat("p", 120), None) }

\* What the three lookup sources can answer
ApiOutcomes ==
    { <<SrcFail, SrcFail, SrcFail>>,
      <<SrcOk(TitleApi, repeat("m", 120)), SrcFail, SrcFail>>,
      <<SrcFail, SrcOk(<< >>, << >>), SrcOk(TitleApi, << >>)>>,
      <<SrcEmptyArray, SrcFail, SrcFail>> }

\* What the model call can answer in a run
GenOutcomes ==
    { GenErr,
      GenOk(<<"S", "C", "O", "R", "E", ":", " ", "0", ".", "9", "\n", "R", "E", "A", "S", "O", "N", ":", " ", "o", "n", " ", "t", "o", "p", "i", "c">>),
      GenOk(<<"S", "C", "O", "R", "E", ":", " ", "0", ".", "3", "\n", "R", "E", "A", "S", "O", "N", ":", " ", "o", "f", "f", " ", "t", "o", "p", "i", "c">>) }

\* --min-score of a run
RunMinScores == {60}

\* How many of the writeln! calls of save_doi succeed: the open fails, the
\* write after the DOI line fails, or all succeed
WriteOutcomes == {0, 2, NumWrites}

\* The sequences over S of length at most n
RECURSIVE SeqsUpTo(_, _)
SeqsUpTo(S, n) ==
    IF n = 0 THEN {<< >>}
    ELSE LET shorter == SeqsUpTo(S, n - 1)
         IN shorter \cup {Append(q, x) : q \in {t \in shorter : Len(t) = n - 1}, x \in S}

NoLast ==
    [url |-> << >>, short |-> FALSE, kind |-> "none", doi |-> None, scored |-> FALSE, is_relevant |-> FALSE,
     score |-> 0, events |-> << >>, w |-> 0, known |-> FALSE, before |-> 0,
     paused |-> FALSE, pauses |-> 0]

NoArgs == [no_ai |-> FALSE, min_score |-> 60, max_results |-> 0]

NoVin == [ollama |-> None, min_score |-> 60, title |-> << >>,
          abstract_text |-> << >>, gen |-> GenErr]

NoVout == [ok |-> FALSE, is_relevant |-> FALSE, score |-> 0, reason |-> << >>]

InitRun ==
    /\ store = << >>
    /\ pc = "none"
    /\ args = NoArgs
    /\ ollama = None
    /\ use_ai = FALSE
    /\ processed_dois = {}
    /\ results_to_process = << >>
    /\ idx = 0
    /\ validated = 0
    /\ saved = 0
    /\ skipped = 0
    /\ last = NoLast
    /\ run_base = 0
    /\ starts = 0
    /\ write_failures = 0
    /\ handed = 0
    /\ saves = << >>
    /\ searched = "none"

\* The threads that append to the progress log: two background runs
\* (DOIScraper::log) and a web handler (add_log)
Threads == {"run1", "run2", "handler"}

\* The background runs the /search route can have spawned
Tasks == {1, 2}

\* A background run: pc where it is ("idle" not spawned, "spawned", "ready"
\* constructed, "running" in the loop of run, "writing" in the writes of
\* save_doi, "done", "failed"); dois its processed_dois; results and idx its
\* candidates and how many it went through; kind the outcome of its last
\* candidate; paper and w the record save_doi is writing and the number of
\* writes done; base the length of the file when it loaded it and accepted
\* the number of candidates it accepted (history)
NoTask ==
    [pc |-> "idle", dois |-> {}, results |-> << >>, idx |-> 0, kind |-> "none",
     paper |-> None, w |-> 0, base |-> 0, accepted |-> 0]

\* No thread is appending to the log, and the log is empty
InitLog ==
    /\ logs = << >>
    /\ holder = "free"
    /\ lpc = [t \in Threads |-> "out"]
    /\ appended = 0

\* No background run is spawned
InitTasks == tasks = [t \in Tasks |-> NoTask]

Init ==
    /\ InitRun
    /\ vpc = "idle"
    /\ vin = NoVin
    /\ vout = NoVout
    /\ InitLog
    /\ InitTasks

(***************************************************************************)
(* The process: main, DOIScraper::new_with_logger, DOIScraper::run         *)
(***************************************************************************)
\* new_with_logger (main.rs 203-240): models_ok is whether list_local_models
\* answered; the dedup set is loaded from the results file.
New ==
    /\ pc = "none"
    /\ starts < MaxStarts
    /\ \E no_ai \in BOOLEAN, models_ok \in BOOLEAN, min_score \in RunMinScores,
          max_results \in {MaxCands} :
          /\ no_ai => models_ok
          /\ args' = [no_ai |-> no_ai, min_score |-> min_score,
                      max_results |-> max_results]
          /\ ollama' = IF ~no_ai /\ models_ok THEN Some("client") ELSE None
          /\ use_ai' = (~no_ai /\ models_ok)
    /\ processed_dois' = load_processed_dois(store)
    /\ run_base' = Len(store)
    /\ starts' = starts + 1
    /\ pc' = "ready"
    /\ last' = NoLast
    /\ searched' = "none"
    /\ UNCHANGED <<store, results_to_process, idx, validated, saved, skipped,
                   write_failures, handed, saves, vpc, vin, vout, logVars, tasks>>

\* The failed search taken for an empty list of candidates
SearchFailsGoesOn ==
    /\ pc = "ready"
    /\ pc' = "running"
    /\ searched' = "err"
    /\ results_to_process' = << >>
    /\ idx' = 0
    /\ validated' = 0
    /\ saved' = 0
    /\ skipped' = 0
    /\ UNCHANGED <<store, args, ollama, use_ai, processed_dois, last, run_base,
                   starts, write_failures, handed, saves, vpc, vin, vout,
                   logVars, tasks>>

\* run, up to the loop (main.rs 701-713): the search fails, or hands over a
\* list of which the first max_results are kept
SearchFails ==
    /\ pc = "ready"
    /\ pc' = "failed"
    /\ searched' = "err"
    /\ UNCHANGED <<store, args, ollama, use_ai, processed_dois, results_to_process,
                   idx, validated, saved, skipped, last, run_base, starts,
                   write_failures, handed, saves, vpc, vin, vout, logVars, tasks>>

SearchOk ==
    /\ pc = "ready"
    /\ \E results \in SeqsUpTo(Candidates, MaxCands + 1) :
          /\ results_to_process' =
                 Slice(results, 1, IF Len(results) < args.max_results
                                   THEN Len(results) ELSE args.max_results)
          /\ handed + Len(results_to_process') <= MaxHanded
          /\ handed' = handed + Len(results_to_process')
    /\ idx' = 0
    /\ validated' = 0
    /\ saved' = 0
    /\ skipped' = 0
    /\ pc' = "running"
    /\ searched' = "ok"
    /\ UNCHANGED <<store, args, ollama, use_ai, processed_dois, last, run_base,
                   starts, write_failures, saves, vpc, vin, vout, logVars, tasks>>

\* A service that is not asked answers nothing: the answers offered to a call
\* are those of the services its stage is about to ask
PagesAsked(st) ==
    IF NeedsScrape(st.doi, st.abstract_text) THEN PageOutcomes ELSE {PageErr}

ApisAsked(st) ==
    IF st.kind = "open" /\ NeedsApi(st.doi, st.abstract_text)
    THEN ApiOutcomes ELSE {<<SrcFail, SrcFail, SrcFail>>}

GensAsked(st) ==
    IF st.kind = "open" /\ use_ai /\ is_some(ollama) THEN GenOutcomes ELSE {GenErr}

WritesAsked == {w \in WriteOutcomes : w < NumWrites => write_failures < MaxWriteFailures}

\* What is recorded of an iteration: the candidate's URL and whether its
\* snippet is shorter than 100, the outcome r of process_result, the events
\* after it, the store write w, whether the identifier was in the dedup set
\* before the iteration, the length of the file before it, whether the pause
\* between candidates followed, and the number of these pauses in the run so
\* far
Observed(r, more, w, dois, file) ==
    [url |-> r.url, short |-> Len(results_to_process[idx + 1].content) < 100,
     kind |-> r.kind, doi |-> r.doi, scored |-> r.scored,
     is_relevant |-> r.is_relevant, score |-> r.score,
     events |-> r.events \o more, w |-> w,
     known |-> is_some(r.doi) /\ unwrap(r.doi) \in dois,
     before |-> Len(file), paused |-> FALSE, pauses |-> last.pauses]

\* A pause after every candidate, the last one too
PauseAfterEvery(i, n) == TRUE

\* main.rs 731: the candidate at index i of n is followed by the pause of 500
\* ms; n - 1 is evaluated in the loop body only, where n >= 1
PauseAfter(i, n) == i < n - 1

\* main.rs 731-733: the end of an iteration whose match arm returned
Paced(o) ==
    IF PauseAfter(idx, Len(results_to_process))
    THEN [o EXCEPT !.paused = TRUE, !.pauses = @ + 1]
    ELSE o

\* The match arms of the loop of run (main.rs 716-729) on the outcome r of
\* process_result; w is how far the store write of save_doi gets
\* Ok(Some(paper)) counted as saved whatever save_doi returns
AcceptedAlwaysSaved(r, w) ==
    /\ r.kind = "accepted"
    /\ validated' = validated + 1
    /\ processed_dois' = SaveDoiInsert(processed_dois, PaperOf(r))
    /\ store' = SaveDoiAppend(store, PaperOf(r), w)
    /\ saved' = saved + 1
    /\ write_failures' = IF w < NumWrites THEN write_failures + 1 ELSE write_failures
    /\ idx' = idx + 1
    /\ last' = Paced(Observed(r, <<"save">>, w, processed_dois, store))
    /\ saves' = Append(saves, [doi |-> r.doi, w |-> w, start |-> starts])
    /\ UNCHANGED <<pc, skipped>>

Accepted(r, w) ==
    /\ r.kind = "accepted"
    /\ validated' = validated + 1
    /\ processed_dois' = SaveDoiInsert(processed_dois, PaperOf(r))
    /\ store' = SaveDoiAppend(store, PaperOf(r), w)
    /\ saved' = IF w = NumWrites THEN saved + 1 ELSE saved
    /\ write_failures' = IF w < NumWrites THEN write_failures + 1 ELSE write_failures
    /\ idx' = idx + 1
    /\ last' = Paced(Observed(r, <<"save">>, w, processed_dois, store))
    /\ saves' = Append(saves, [doi |-> r.doi, w |-> w, start |-> starts])
    /\ UNCHANGED <<pc, skipped>>

\* Ok(None) with the identifier put into the dedup set
NotAcceptedInserts(r) ==
    /\ r.kind \in {"skipped", "rejected"}
    /\ skipped' = skipped + 1
    /\ idx' = idx + 1
    /\ processed_dois' = SaveDoiInsert(processed_dois, PaperOf(r))
    /\ last' = Paced(Observed(r, << >>, 0, processed_dois, store))
    /\ UNCHANGED <<pc, store, validated, saved, write_failures, saves>>

\* main.rs 723-725: Ok(None)
NotAccepted(r) ==
    /\ r.kind \in {"skipped", "rejected"}
    /\ skipped' = skipped + 1
    /\ idx' = idx + 1
    /\ last' = Paced(Observed(r, << >>, 0, processed_dois, store))
    /\ UNCHANGED <<pc, store, processed_dois, validated, saved, write_failures,
                   saves>>

Panicked(r) ==
    /\ r.kind = "panic"
    /\ pc' = "panicked"
    /\ last' = Observed(r, << >>, 0, processed_dois, store)
    /\ UNCHANGED <<idx, store, processed_dois, validated, saved, skipped,
                   write_failures, saves>>

\* The iteration with the lookup chain asked before the dedup check
ProcessCandidateLookupFirst ==
    /\ pc = "running"
    /\ idx < Len(results_to_process)
    /\ \E st0 \in {ExtractStage(results_to_process[idx + 1])} :
       \E page \in PagesAsked(st0) :
       \E st1 \in {ScrapeStage(st0, page)} :
       \E api \in ApisAsked(st1) :
       \E st2 \in {FallbackStage(DedupStage(ApiStage(st1, api), processed_dois))} :
       \E gen \in GensAsked(st2) :
       \E r \in {ScoreStage(st2, use_ai, ollama, args.min_score, Subject, gen)} :
          \/ \E w \in WritesAsked : Accepted(r, w)
          \/ NotAccepted(r)
          \/ Panicked(r)
    /\ UNCHANGED <<args, ollama, use_ai, results_to_process, run_base, starts,
                   handed, searched, vpc, vin, vout, logVars, tasks>>

\* One iteration of the loop of run (main.rs 715-734): process_result (main.rs
\* 580-671) stage by stage on the answers of the services it asks, then
\* save_doi and the counters
ProcessCandidate ==
    /\ pc = "running"
    /\ idx < Len(results_to_process)
    /\ \E st0 \in {ExtractStage(results_to_process[idx + 1])} :
       \E page \in PagesAsked(st0) :
       \E st1 \in {DedupStage(ScrapeStage(st0, page), processed_dois)} :
       \E api \in ApisAsked(st1) :
       \E st2 \in {FallbackStage(ApiStage(st1, api))} :
       \E gen \in GensAsked(st2) :
       \E r \in {ScoreStage(st2, use_ai, ollama, args.min_score, Subject, gen)} :
          \/ \E w \in WritesAsked : Accepted(r, w)
          \/ NotAccepted(r)
          \/ Panicked(r)
    /\ UNCHANGED <<args, ollama, use_ai, results_to_process, run_base, starts,
                   handed, searched, vpc, vin, vout, logVars, tasks>>

\* run, after the loop (main.rs 736-745): the summary, and Ok(())
Summarize ==
    /\ pc = "running"
    /\ idx = Len(results_to_process)
    /\ pc' = "done"
    /\ UNCHANGED <<store, args, ollama, use_ai, processed_dois, results_to_process,
                   idx, validated, saved, skipped, last, run_base, starts,
                   write_failures, handed, saves, searched, vpc, vin, vout,
                   logVars, tasks>>

\* main returns (main.rs 832-833): the process ends, the file stays
Exit ==
    /\ pc \in {"done", "failed", "panicked"}
    /\ pc' = "none"
    /\ UNCHANGED <<store, args, ollama, use_ai, processed_dois, results_to_process,
                   idx, validated, saved, skipped, last, run_base, starts,
                   write_failures, handed, saves, searched, vpc, vin, vout,
                   logVars, tasks>>

Next ==
    \/ New
    \/ SearchFails
    \/ SearchOk
    \/ ProcessCandidate
    \/ Summarize
    \/ Exit

Spec == Init /\ [][Next]_vars

(***************************************************************************)
(* Properties of a run                                                     *)
(***************************************************************************)
\* The well-formed identifiers of the inputs
Ids == {IdA, IdB}

\* The number of lines "DOI: id" of the file after its first n lines
DoiLines(file, n, id) ==
    Cardinality({k \in (n + 1)..Len(file) : file[k] = DoiLabel \o id})

\* The lines the last iteration appended to the file
AppendedLines == Slice(store, last.before + 1, Len(store))

\* ls is a whole record block
FullBlock(ls) ==
    /\ Len(ls) >= 10
    /\ ls[1] = << >>
    /\ ls[2] = separator
    /\ starts_with(ls[3], DoiLabel)
    /\ ls[Len(ls) - 1] = separator
    /\ ls[Len(ls)] = << >>

\* A step of the loop of run on the candidate results_to_process[idx + 1]
IterationStep ==
    /\ pc = "running"
    /\ idx < Len(results_to_process)
    /\ idx' = idx + 1 \/ pc' = "panicked"

\* C1: an identifier whose record an earlier run appended in full is in the
\* dedup set the current run loaded from the file, and the file holds exactly
\* one record for it across the runs.
C1_CrossRunDedup ==
    \A k \in DOMAIN saves :
        (/\ pc # "none"
         /\ saves[k].start < starts
         /\ saves[k].w = NumWrites
         /\ is_some(saves[k].doi))
        => /\ unwrap(saves[k].doi) \in processed_dois
           /\ DoiLines(store, 0, unwrap(saves[k].doi)) = 1

\* C2: a candidate whose identifier is in the dedup set at the dedup check is
\* skipped: the skipped counter goes up by one, and neither a lookup API nor
\* the scoring nor the model is called, nor is anything appended to the file.
C2_KnownIsSkipped ==
    [][(IterationStep /\ last'.known)
       => /\ last'.kind = "skipped"
          /\ skipped' = skipped + 1
          /\ idx' = idx + 1
          /\ store' = store
          /\ saves' = saves
          /\ \A k \in DOMAIN last'.events :
                last'.events[k] \notin {"api", "score", "model_call", "save"}]_vars

C2_Witness ==
    /\ last.known
    /\ last.kind = "skipped"
    /\ skipped >= 1

\* C3: within one run the file gets at most one record block (whole or cut
\* short by a failed write) for an identifier, whatever the candidates are.
C3_OneBlockPerIdInRun ==
    \A id \in Ids : DoiLines(store, run_base, id) <= 1

C3_Witness ==
    /\ idx = 2
    /\ last.known
    /\ last.doi = Some(IdA)
    /\ DoiLines(store, run_base, IdA) = 1

C5_DisabledScoreSentinel ==
    (args.no_ai /\ last.scored)
    => /\ last.is_relevant
       /\ last.score = 110
       /\ last.w >= 5 => AppendedLines[6] = ScoreLabel \o FormatScore(110)

\* C6 as stated: for a candidate that reached the scoring step, a record
\* block is appended to the file if and only if the verdict is accepted.
C6_AppendIffAccepted ==
    last.scored => (FullBlock(AppendedLines) <=> last.is_relevant)

\* C6, amended: for a candidate that reached the scoring step, lines are
\* appended to the file only if the verdict is accepted; if it is accepted
\* save_doi is called, and the whole block is appended, under the candidate's
\* identifier or NA, when all its writes succeed.
C6_AppendOnlyIfAccepted ==
    last.scored
    => /\ AppendedLines # << >> => last.is_relevant
       /\ last.is_relevant
             => /\ last.events[Len(last.events)] = "save"
                /\ last.w = NumWrites
                      => /\ FullBlock(AppendedLines)
                         /\ AppendedLines[3] = DoiLabel \o unwrap_or(last.doi, NA)

C6_Witness ==
    /\ last.scored
    /\ last.is_relevant
    /\ last.w = NumWrites
    /\ FullBlock(AppendedLines)

\* C11: when the store write for an accepted candidate fails, the candidate
\* is not counted as saved, the loop goes on to the next candidate, and the
\* candidate's identifier is not in the dedup set afterwards; when the write
\* succeeds it is counted and the identifier is in the set (the append and the
\* insertion both happen or neither).
C11_WriteAndInsertTogether ==
    [][(IterationStep /\ last'.kind = "accepted")
       => /\ idx' = idx + 1
          /\ pc' = "running"
          /\ last'.w < NumWrites
                => /\ saved' = saved
                   /\ is_some(last'.doi) => unwrap(last'.doi) \notin processed_dois'
          /\ last'.w = NumWrites
                => /\ saved' = saved + 1
                   /\ is_some(last'.doi) => unwrap(last'.doi) \in processed_dois']_vars

\* C12: no failure while a candidate is processed aborts the run: whatever
\* the page fetch, the lookup sources, the model call and the store write
\* answer, the loop goes on to the next candidate.
C12_NoCandidateAbortsRun ==
    [][IterationStep => (idx' = idx + 1 /\ pc' = "running")]_vars

\* C13: when the search query fails, run returns the error: no candidate is
\* processed, nothing is appended to the file and the dedup set stays as it
\* was loaded.
C13_SearchFailureEndsRun ==
    searched = "err"
    => /\ pc \in {"failed", "none"}
       /\ last = NoLast
       /\ Len(store) = run_base
       /\ processed_dois = load_processed_dois(store)
       /\ \A k \in DOMAIN saves : saves[k].start < starts

C13_Witness ==
    /\ searched = "err"
    /\ pc = "failed"
    /\ store # << >>

\* The "URL: " lines of a file, in order
RECURSIVE UrlLines(_)
UrlLines(file) ==
    IF file = << >> THEN << >>
    ELSE IF starts_with(Head(file), UrlLabel)
         THEN <<Head(file)>> \o UrlLines(Tail(file))
         ELSE UrlLines(Tail(file))

\* a is b with some entries left out
RECURSIVE IsSubseq(_, _)
IsSubseq(a, b) ==
    IF a = << >> THEN TRUE
    ELSE IF b = << >> THEN FALSE
    ELSE IF Head(a) = Head(b) THEN IsSubseq(Tail(a), Tail(b))
    ELSE IsSubseq(a, Tail(b))

\* The "URL: " lines of the records of the candidates gone through so far
UrlsGoneThrough(n) == [k \in 1..n |-> UrlLabel \o results_to_process[k].url]

\* C15: a run goes through its candidates one at a time in the order the
\* search client supplied them; the records it appends are in that same
\* relative order; what the file held is never rewritten, reordered or removed.
C15_AppendOnlyInOrder ==
    [][/\ Len(store') >= Len(store)
       /\ SubSeq(store', 1, Len(store)) = store
       /\ IterationStep
             => /\ last'.url = results_to_process[idx + 1].url
                /\ UrlLines(Slice(store', Len(store) + 1, Len(store')))
                      \in {<< >>, <<UrlLabel \o results_to_process[idx + 1].url>>}
       /\ pc' = "running"
             => IsSubseq(UrlLines(Slice(store', run_base' + 1, Len(store'))),
                         UrlsGoneThrough(idx)')]_vars

\* A run has appended the records of two candidates with different URLs
C15_Witness ==
    /\ pc = "running"
    /\ idx = 2
    /\ results_to_process[1].url # results_to_process[2].url
    /\ UrlLines(Slice(store, run_base + 1, Len(store))) = UrlsGoneThrough(2)

\* Where an event stands in the order of the stages of process_result and
\* save_doi as the code has them
StageRank(e) ==
    CASE e = "extract" -> 1
      [] e = "scrape" -> 2
      [] e = "dedup_check" -> 3
      [] e = "api" -> 4
      [] e = "score" -> 5
      [] e = "model_call" -> 6
      [] e = "sleep300" -> 7
      [] e = "save" -> 8

C24_OutageScore ==
    (/\ pc \in {"running", "done"}
     /\ ~args.no_ai
     /\ is_none(ollama)
     /\ last.scored)
    => /\ last.is_relevant
       /\ last.score = 70

\* C27: a rejected candidate leaves the file and the dedup set as they were
\* (save_doi is not called), and the next candidate of the run with the same
\* identifier is not skipped by the dedup check: it goes on to scoring.
C27_RejectedLeavesNoTrace ==
    [][/\ (IterationStep /\ last'.kind = "rejected")
             => /\ store' = store
                /\ processed_dois' = processed_dois
                /\ saves' = saves
       /\ (IterationStep /\ last.kind = "rejected" /\ is_some(last.doi)
           /\ last'.doi = last.doi)
             => /\ ~last'.known
                /\ last'.kind \in {"accepted", "rejected", "panic"}
                /\ last'.kind \in {"accepted", "rejected"} => last'.scored]_vars

\* Two candidates with the same identifier were rejected one after the other
C27_Witness ==
    /\ starts = 1
    /\ idx = 2
    /\ skipped = 2
    /\ last.kind = "rejected"
    /\ last.scored
    /\ is_some(last.doi)
    /\ results_to_process[1] = results_to_process[2]
    /\ store = << >>
    /\ processed_dois = {}

\* C28: a candidate without identifier never takes the dedup check and is
\* never skipped, whatever the dedup set holds; when it is accepted the
\* dedup set stays as it was and the block written carries the placeholder NA.
C28_NoIdentifier ==
    [][(IterationStep /\ is_none(last'.doi))
       => /\ last'.kind # "skipped"
          /\ \A k \in DOMAIN last'.events : last'.events[k] # "dedup_check"
          /\ processed_dois' = processed_dois
          /\ (last'.kind = "accepted" /\ last'.w = NumWrites)
                => /\ Len(store') > Len(store) + 2
                   /\ store'[Len(store) + 3] = DoiLabel \o NA]_vars

\* A candidate without identifier was accepted and written while the dedup
\* set was not empty
C28_Witness ==
    /\ is_none(last.doi)
    /\ last.kind = "accepted"
    /\ last.w = NumWrites
    /\ processed_dois # {}
    /\ DoiLines(store, last.before, NA) = 1

\* The summary of run is reached in this step
Completes == pc = "running" /\ pc' = "done"

\* What is common to both readings of C30: validated goes up once per
\* accepted candidate, saved only when its write succeeded, and at the
\* summary saved <= validated <= processed and processed = validated +
\* skipped (+ the candidates that ended in an error, of which there are none)
CountersStep ==
    /\ IterationStep
          => /\ validated' = (IF last'.kind = "accepted" THEN validated + 1 ELSE validated)
             /\ saved' = (IF last'.kind = "accepted" /\ last'.w = NumWrites
                          THEN saved + 1 ELSE saved)
    /\ Completes
          => /\ saved <= validated
             /\ validated <= Len(results_to_process)
             /\ Len(results_to_process) = validated + skipped

\* C30: the run statistics are consistent at completion, skipped counting
\* the candidates skipped because their identifier was in the dedup set.
C30_SkippedCountsDedup ==
    [][/\ CountersStep
       /\ IterationStep
             => skipped' = (IF last'.kind = "skipped" THEN skipped + 1 ELSE skipped)]_vars

\* C30 as the code has it: skipped counts every candidate process_result
\* returned Ok(None) for, those skipped at the dedup check and those rejected
\* by the scoring.
C30_SkippedCountsNotAccepted ==
    [][/\ CountersStep
       /\ IterationStep
             => skipped' = (IF last'.kind \in {"skipped", "rejected"}
                            THEN skipped + 1 ELSE skipped)]_vars

\* A run completed with an accepted candidate whose write failed and a
\* rejected one
C30_Witness ==
    /\ pc = "done"
    /\ idx = 2
    /\ validated = 1
    /\ saved = 0
    /\ skipped = 1
    /\ last.kind = "rejected"

\* The loop of run has a candidate left: ProcessCandidate is enabled
LoopHasNext == pc = "running" /\ idx < Len(results_to_process)

\* The loop of run is sequential code (main.rs 715-745): every network call
\* and every sleep returning, an iteration that can be taken is taken, and
\* after the last one the summary. This is weak fairness of ProcessCandidate
\* and of Summarize; that of ProcessCandidate is written out, its steps being
\* the IterationSteps and LoopHasNext saying that it is enabled. Nothing
\* makes a process start or exit.
SpecFair ==
    /\ Spec
    /\ ([]<>~LoopHasNext \/ []<><<IterationStep>>_vars)
    /\ WF_vars(Summarize)

\* C32: every network call and every sleep returning, a run whose search
\* handed over its candidates eventually reaches its summary.
C32_RunReachesSummary == (pc = "running") ~> (pc = "done")

\* The least of two numbers
Min(a, b) == IF a < b THEN a ELSE b

\* The position of the first event e in evs, 0 when there is none
FirstEvent(evs, e) ==
    IF \E k \in DOMAIN evs : evs[k] = e
    THEN CHOOSE k \in DOMAIN evs : evs[k] = e /\ \A j \in 1..(k - 1) : evs[j] # e
    ELSE 0

\* C33: in a run over n candidates a pause follows each candidate except the
\* last, so that after idx candidates min(idx, n - 1) pauses were made and
\* n - 1 at the summary (none when n is 0 or 1); for an accepted candidate
\* the pause of 300 ms comes before its record is handed to the store.
C33_Pacing ==
    LET n == Len(results_to_process)
    IN  /\ pc \in {"running", "done", "panicked"}
           => /\ last.pauses = (IF n = 0 THEN 0 ELSE Min(idx, n - 1))
              /\ last.pauses >= 0
              /\ last.kind \in {"accepted", "skipped", "rejected"}
                    => (last.paused <=> idx < n)
        /\ pc = "done" => last.pauses = (IF n <= 1 THEN 0 ELSE n - 1)
        /\ last.kind = "accepted"
           => /\ FirstEvent(last.events, "sleep300") > 0
              /\ FirstEvent(last.events, "sleep300") < FirstEvent(last.events, "save")

\* A run of two candidates reached its summary after one pause, the last
\* candidate accepted
C33_Witness ==
    /\ pc = "done"
    /\ Len(results_to_process) = 2
    /\ last.pauses = 1
    /\ ~last.paused
    /\ last.kind = "accepted"

(***************************************************************************)
(* validate_with_ai alone: one call on inputs drawn from bounded sets      *)
(***************************************************************************)
\* The most lines of a model response
MaxLines == 2

\* The lines a model response is made of
ResponseLines ==
    { <<"S", "C", "O", "R", "E", ":", " ", "0", ".", "9", "2">>,
      <<"S", "C", "O", "R", "E", ":", " ", "0", ".", "9">>,
      <<"s", "c", "o", "r", "e", ":", " ", "0", ".", "6">>,
      <<"S", "C", "O", "R", "E", ":", " ", "0", ".", "5", "9">>,
      <<"S", "C", "O", "R", "E", ":", " ", "h", "i", "g", "h", " ", "0", ".", "9">>,
      <<"S", "C", "O", "R", "E", ":", " ", "0", ".", "8", ":", " ", "g", "o", "o", "d">>,
      <<"R", "a", "t", "i", "n", "g", ":", " ", "S", "C", "O", "R", "E", ":", " ", "0", ".", "7">>,
      <<"S", "C", "O", "R", "E", ":", "0", ".", "6", " ", "R", "E", "A", "S", "O", "N", ":", " ", "b", "o", "t", "h">>,
      <<"R", "E", "A", "S", "O", "N", ":", " ", "D", "i", "r", "e", "c", "t", ":", " ", "y", "e", "s", ".">>,
      <<"r", "e", "a", "s", "o", "n", ":", " ", "f", "i", "n", "e">>,
      <<"I", "t", " ", "i", "s", " ", "0", ".", "3", " ", ".">>,
      <<" ", "n", "o", "n", "e", " ">>,
      <<"S", "C", "O", "R", "E", ":", " ", "7", ".", "5">> }

\* The responses: up to MaxLines lines, each ended by a line feed or not
Responses ==
    {join(ls, <<"\n">>) : ls \in SeqsUpTo(ResponseLines, MaxLines) \ {<< >>}}

MinScores == {60, 70, 90}

ValidateInputs ==
    { [ollama |-> o, min_score |-> m, title |-> t, abstract_text |-> a, gen |-> g] :
        o \in {Some("client")}, m \in MinScores, t \in {TitleX, << >>},
        a \in {TitleX}, g \in {GenErr} \cup {GenOk(x) : x \in Responses} }
    \cup
    { [ollama |-> None, min_score |-> m, title |-> TitleX, abstract_text |-> TitleX,
       gen |-> GenErr] : m \in MinScores }

InitValidate ==
    /\ InitRun
    /\ vpc = "called"
    /\ vin \in ValidateInputs
    /\ vout = NoVout
    /\ InitLog
    /\ InitTasks

Validate ==
    /\ vpc = "called"
    /\ vout' = validate_with_ai(vin.ollama, vin.min_score, vin.title,
                                vin.abstract_text, Subject, vin.gen)
    /\ vpc' = "returned"
    /\ UNCHANGED <<vin, runVars, logVars, tasks>>

NextValidate == Validate

SpecValidate == InitValidate /\ [][NextValidate]_vars

(***************************************************************************)
(* Properties of validate_with_ai                                          *)
(***************************************************************************)
\* The call has returned, with a client and a failed model call
ReturnedOnFailure == vpc = "returned" /\ is_some(vin.ollama) /\ ~vin.gen.ok

\* The call has returned, with a client and a model response
ReturnedOnResponse == vpc = "returned" /\ is_some(vin.ollama) /\ vin.gen.ok

\* The response text as the parsing sees it
ResponseText == trim(vin.gen.response)

\* Everything after the first colon of a line
AfterFirstColon(l) == DropFirst(l, IndexOf(l, <<":">>))

\* C7: when the model call fails the verdict is accepted with score 0.7 and
\* the fixed reason, for every title, abstract and minimum score (also one
\* above 0.7), and it is a result, not an error.
C7_FailOpen ==
    ReturnedOnFailure
    => vout = [ok |-> TRUE, is_relevant |-> TRUE, score |-> 70,
               reason |-> AiErrorReason]

C7_Witness ==
    /\ ReturnedOnFailure
    /\ vin.min_score = 90
    /\ vout.is_relevant
    /\ vout.score = 70

\* C8: for a score parsed from a model response the verdict is accepted if
\* and only if the score is at least the configured minimum.
C8_AcceptedIffAtLeastMin ==
    ReturnedOnResponse
    => /\ vout.ok
       /\ vout.is_relevant <=> ~(vout.score < vin.min_score)

C8_Witness ==
    /\ ReturnedOnResponse
    /\ vout.score = vin.min_score
    /\ vout.is_relevant

\* The score as C9 words it: the float parsed from everything after the first
\* colon of the first line whose upper-cased form contains SCORE:, else the
\* first token of the response that parses, else 0.5
ScoreAsWorded(text) ==
    LET l == FindLine(lines(text), ScoreKey)
        v == IF is_some(l) THEN parse_f32(trim(AfterFirstColon(unwrap(l)))) ELSE None
    IN IF is_some(v) THEN unwrap(v)
       ELSE unwrap_or(FindMapParse(split_whitespace(text)), 50)

\* C9: the score of a model response is the float parsed from everything after
\* the first colon of the first line whose upper-cased form contains SCORE:;
\* if that line is absent or its value does not parse, the first white-space
\* separated token of the response that parses; else 0.5.
C9_ScoreParsing ==
    ReturnedOnResponse => vout.score = ScoreAsWorded(ResponseText)

\* The first line of ls that contains key as written, as Option
FindLineExact(ls, key) ==
    LET hits == {k \in 1..Len(ls) : contains(ls[k], key)}
    IN IF hits = {} THEN None
       ELSE Some(ls[CHOOSE k \in hits : \A j \in hits : k <= j])

\* The reason given the reason line found (an Option)
ReasonGiven(l, text) ==
    IF is_some(l) THEN trim(AfterFirstColon(unwrap(l)))
    ELSE trim(join(DropFirst(lines(text), 1), <<" ">>))

\* A reply of the two lines "SCORE: s" and "REASON: r" gives exactly (s, r)
TwoLineReply ==
    LET ls == lines(ResponseText)
    IN (/\ Len(ls) = 2
        /\ starts_with(ls[1], ScoreKey)
        /\ starts_with(ls[2], ReasonKey)
        /\ is_some(parse_f32(trim(DropFirst(ls[1], Len(ScoreKey))))))
       => /\ Some(vout.score) = parse_f32(trim(DropFirst(ls[1], Len(ScoreKey))))
          /\ vout.reason = trim(DropFirst(ls[2], Len(ReasonKey)))

\* C10 as stated: the reason is everything after the first colon of the first
\* line containing REASON:, trimmed, colons inside it kept; without such a
\* line it is the lines after the first, joined and trimmed; a two-line reply
\* "SCORE: s", "REASON: r" gives exactly (s, r).
C10_ReasonLineExact ==
    ReturnedOnResponse
    => /\ vout.reason = ReasonGiven(FindLineExact(lines(ResponseText), ReasonKey),
                                    ResponseText)
       /\ TwoLineReply

\* C10, amended: the same with the reason line being the first line whose
\* upper-cased form contains REASON:.
C10_ReasonLineUpperCased ==
    ReturnedOnResponse
    => /\ vout.reason = ReasonGiven(FindLine(lines(ResponseText), ReasonKey),
                                    ResponseText)
       /\ TwoLineReply

C10_Witness ==
    /\ ReturnedOnResponse
    /\ lines(ResponseText) = <<<<"S", "C", "O", "R", "E", ":", " ", "0", ".", "9", "2">>, <<"R", "E", "A", "S", "O", "N", ":", " ", "D", "i", "r", "e", "c", "t", ":", " ", "y", "e", "s", ".">>>>
    /\ vout.score = 92
    /\ vout.reason = <<"D", "i", "r", "e", "c", "t", ":", " ", "y", "e", "s", ".">>

\* C31: whatever text the model returns, an accepted score lies between 0.0
\* and 1.1: it is a score within [0, 1] or the sentinel 1.1 of disabled AI.
C31_AcceptedScoreInRange ==
    (vpc = "returned" /\ vout.ok /\ vout.is_relevant)
    => /\ vout.score >= 0
       /\ vout.score <= 110
       /\ vout.score > 100 => (vout.score = 110 /\ is_none(vin.ollama))

(***************************************************************************)
(* The resolution stages of process_result alone (main.rs 586-640): one    *)
(* candidate, one page outcome, one lookup outcome and one dedup set drawn *)
(* from bounded sets; vout is the record in progress after each stage.     *)
(***************************************************************************)
\* A URL that carries no identifier
UrlPlain == Https \o <<"x", ".", "o", "r", "g", "/", "p">>

\* The candidates resolved: with and without a title, with and without an
\* identifier in the URL, with no snippet, a snippet of at most 50, of less than 100, and of more
ResolveResults ==
    { [title |-> t, url |-> u, content |-> c] :
        t \in {TitleX, << >>},
        u \in {UrlDoiA, UrlPlain},
        c \in {<< >>, repeat("s", 40), repeat("s", 80), repeat("s", 120)} }

\* What fetch_page_content can return to the stages
ResolvePages ==
    PageOutcomes \cup {PageOk(<< >>, None), PageOk(repeat("p", 30), None)}

\* What the lookup sources can answer to the stages
ResolveApis ==
    ApiOutcomes \cup {<<SrcOk(TitleApi, repeat("m", 60)), SrcFail, SrcFail>>}

\* processed_dois at the call
ResolveDois == {{}, {IdA}}

ResolveInputs ==
    { [result |-> r, page |-> p, api |-> a, dois |-> d] :
        r \in ResolveResults, p \in ResolvePages, a \in ResolveApis,
        d \in ResolveDois }

InitResolve ==
    /\ InitRun
    /\ vpc = "called"
    /\ vin \in ResolveInputs
    /\ vout = NoVout
    /\ InitLog
    /\ InitTasks

\* main.rs 586-588
ResolveExtract ==
    /\ vpc = "called"
    /\ vout' = ExtractStage(vin.result)
    /\ vpc' = "extracted"
    /\ UNCHANGED <<vin, runVars, logVars, tasks>>

\* main.rs 590-602
ResolveScrape ==
    /\ vpc = "extracted"
    /\ vout' = ScrapeStage(vout, vin.page)
    /\ vpc' = "scraped"
    /\ UNCHANGED <<vin, runVars, logVars, tasks>>

\* main.rs 604-610
ResolveDedup ==
    /\ vpc = "scraped"
    /\ vout' = DedupStage(vout, vin.dois)
    /\ vpc' = "checked"
    /\ UNCHANGED <<vin, runVars, logVars, tasks>>

\* main.rs 612-624
ResolveApi ==
    /\ vpc = "checked"
    /\ vout' = ApiStage(vout, vin.api)
    /\ vpc' = "merged"
    /\ UNCHANGED <<vin, runVars, logVars, tasks>>

\* main.rs 629-640
ResolveFallback ==
    /\ vpc = "merged"
    /\ vout' = FallbackStage(vout)
    /\ vpc' = "final"
    /\ UNCHANGED <<vin, runVars, logVars, tasks>>

NextResolve ==
    \/ ResolveExtract
    \/ ResolveScrape
    \/ ResolveDedup
    \/ ResolveApi
    \/ ResolveFallback

SpecResolve == InitResolve /\ [][NextResolve]_vars

(***************************************************************************)
(* Properties of the resolution stages                                     *)
(***************************************************************************)
\* A stage leaves the abstract as it was or replaces it by a non-empty,
\* strictly longer one
GrowsOrKeeps ==
    \/ vout'.abstract_text = vout.abstract_text
    \/ /\ vout'.abstract_text # << >>
       /\ Len(vout'.abstract_text) > Len(vout.abstract_text)

\* C14: from one resolution stage to the next (snippet, page merge, lookup
\* merge, final title fallback) the abstract never gets shorter, and a stage
\* overwrites it only with a non-empty, strictly longer value.
C14_AbstractNeverShrinks ==
    [][vpc # "called" => GrowsOrKeeps]_vars

\* C14 as the code has it: the abstract starts as the snippet; the page merge
\* and the lookup merge leave it or replace it by a non-empty, strictly longer
\* value; the final fallback leaves an abstract of more than 50 characters
\* and replaces any other by the title, whatever the title's length.
C14_AbstractGrowsUntilFallback ==
    [][/\ vpc = "called" => vout'.abstract_text = vin.result.content
       /\ vpc \in {"extracted", "scraped", "checked"} => GrowsOrKeeps
       /\ (vpc = "merged" /\ vout.kind = "open")
             => vout'.abstract_text =
                   IF Len(vout.abstract_text) > 50 THEN vout.abstract_text
                   ELSE vout.title
       /\ (vpc = "merged" /\ vout.kind # "open")
             => vout'.abstract_text = vout.abstract_text]_vars

\* The page merge took a longer abstract of at most 50 characters, and the
\* final fallback replaced it by a shorter title
C14_Witness ==
    /\ vpc = "final"
    /\ vin.page.ok
    /\ Len(vin.page.abstract) > Len(vin.result.content)
    /\ Len(vin.page.abstract) <= 50
    /\ ScrapeStage(ExtractStage(vin.result), vin.page).abstract_text = vin.page.abstract
    /\ vout.abstract_text = vout.title
    /\ Len(vout.title) < Len(vin.page.abstract)

\* The stage of this step was carried out: it left its events
StageRan == vout'.events # vout.events

C29_FallbackNonEmpty ==
    [][(vpc = "merged" /\ vout.kind = "open")
       => /\ Len(vout.abstract_text) <= 50 => vout'.abstract_text = vout.title
          /\ vout'.abstract_text # << >>]_vars

(***************************************************************************)
(* Background runs of the web interface (web.rs 69-113): every /search     *)
(* request spawns a task that constructs its own DOIScraper on the fixed   *)
(* output file and runs it. The tasks share the file and nothing else. AI  *)
(* is disabled in the requests; a writeln! of save_doi is taken as one     *)
(* append to the file, so the blocks of two tasks interleave line by line. *)
(***************************************************************************)
\* The candidate the searches of the tasks return
TaskCandidate == [title |-> TitleX, url |-> UrlDoiA, content |-> repeat("s", 120)]

\* What search_searxng hands to a task: the candidate, twice
TaskResults == {<<TaskCandidate, TaskCandidate>>}

\* The set the dedup check of task t looks into
TaskDedupSetOfAll(ts, t) == UNION {ts[u].dois : u \in Tasks}

\* main.rs 607: self.processed_dois of the task's own DOIScraper
TaskDedupSet(ts, t) == ts[t].dois

\* web.rs 92: tokio::spawn, whatever the other tasks are doing
Spawn(t) ==
    /\ tasks[t].pc = "idle"
    /\ tasks' = [tasks EXCEPT ![t].pc = "spawned"]
    /\ UNCHANGED <<runVars, vpc, vin, vout, logVars>>

\* web.rs 95, main.rs 240: the task loads its dedup set from the file
TaskNew(t) ==
    /\ tasks[t].pc = "spawned"
    /\ tasks' = [tasks EXCEPT ![t].pc = "ready",
                              ![t].dois = load_processed_dois(store),
                              ![t].base = Len(store)]
    /\ UNCHANGED <<runVars, vpc, vin, vout, logVars>>

\* main.rs 702: the search of the task fails
TaskSearchFails(t) ==
    /\ tasks[t].pc = "ready"
    /\ tasks' = [tasks EXCEPT ![t].pc = "failed"]
    /\ UNCHANGED <<runVars, vpc, vin, vout, logVars>>

\* main.rs 702-713
TaskSearchOk(t) ==
    /\ tasks[t].pc = "ready"
    /\ \E rs \in TaskResults :
          tasks' = [tasks EXCEPT ![t].pc = "running", ![t].results = rs,
                                 ![t].idx = 0]
    /\ UNCHANGED <<runVars, vpc, vin, vout, logVars>>

\* main.rs 716-719 and 676-678: Ok(Some(paper)); save_doi inserts into the
\* task's set and goes on to open the file
TaskAccepted(t, r) ==
    /\ r.kind = "accepted"
    /\ tasks' = [tasks EXCEPT ![t].pc = "writing",
                              ![t].kind = "accepted",
                              ![t].dois = SaveDoiInsert(@, PaperOf(r)),
                              ![t].paper = Some(PaperOf(r)),
                              ![t].w = 0,
                              ![t].accepted = @ + 1]

\* main.rs 723-725: Ok(None)
TaskNotAccepted(t, r) ==
    /\ r.kind \in {"skipped", "rejected"}
    /\ tasks' = [tasks EXCEPT ![t].kind = r.kind, ![t].idx = @ + 1]

\* main.rs 715-716: process_result on the task's next candidate
TaskProcess(t) ==
    /\ tasks[t].pc = "running"
    /\ tasks[t].idx < Len(tasks[t].results)
    /\ \E st0 \in {ExtractStage(tasks[t].results[tasks[t].idx + 1])} :
       \E page \in PagesAsked(st0) :
       \E st1 \in {DedupStage(ScrapeStage(st0, page), TaskDedupSet(tasks, t))} :
       \E api \in ApisAsked(st1) :
       \E st2 \in {FallbackStage(ApiStage(st1, api))} :
       \E r \in {ScoreStage(st2, FALSE, None, 60, Subject, GenErr)} :
          \/ TaskAccepted(t, r)
          \/ TaskNotAccepted(t, r)
    /\ UNCHANGED <<runVars, vpc, vin, vout, logVars>>

\* main.rs 688-695: the next writeln! of save_doi; after the last one the
\* loop of run counts the record and goes on
TaskWrite(t) ==
    /\ tasks[t].pc = "writing"
    /\ store' = store \o BlockWrites(unwrap(tasks[t].paper))[tasks[t].w + 1]
    /\ tasks' = IF tasks[t].w + 1 = NumWrites
                THEN [tasks EXCEPT ![t].w = NumWrites, ![t].pc = "running",
                                   ![t].idx = @ + 1]
                ELSE [tasks EXCEPT ![t].w = @ + 1]
    /\ UNCHANGED <<pc, args, ollama, use_ai, processed_dois, results_to_process,
                   idx, validated, saved, skipped, last, run_base, starts,
                   write_failures, handed, saves, searched, vpc, vin, vout,
                   logVars>>

\* main.rs 736-745
TaskSummarize(t) ==
    /\ tasks[t].pc = "running"
    /\ tasks[t].idx = Len(tasks[t].results)
    /\ tasks' = [tasks EXCEPT ![t].pc = "done"]
    /\ UNCHANGED <<runVars, vpc, vin, vout, logVars>>

NextConcurrent ==
    \E t \in Tasks :
        \/ Spawn(t)
        \/ TaskNew(t)
        \/ TaskSearchFails(t)
        \/ TaskSearchOk(t)
        \/ TaskProcess(t)
        \/ TaskWrite(t)
        \/ TaskSummarize(t)

SpecConcurrent == Init /\ [][NextConcurrent]_vars

(***************************************************************************)
(* Properties of concurrent runs                                           *)
(***************************************************************************)
\* Task t is about to process a candidate, and does in this step
TaskProcessStep(t) ==
    /\ tasks[t].pc = "running"
    /\ tasks[t].idx < Len(tasks[t].results)
    /\ tasks'[t] # tasks[t]

\* The identifier of the candidate task t is on
TaskCandidateId(t) == extract_doi_from_url(tasks[t].results[tasks[t].idx + 1].url)

\* C16: concurrent runs on the same file do not coordinate. A task's dedup
\* set is loaded from the file when the task is constructed and changes only
\* by the task's own acceptances; whether a task accepts a candidate depends
\* on its own set alone, whatever the other task has accepted or written. So
\* both can accept the same identifier and the file then holds two records
\* for it (C16_Witness).
C16_RunsDoNotCoordinate ==
    [][\A t \in Tasks :
          /\ tasks'[t].dois # tasks[t].dois
                => /\ tasks[t].pc \in {"spawned", "running"}
                   /\ \A u \in Tasks \ {t} : tasks'[u] = tasks[u]
          /\ (tasks[t].pc = "spawned" /\ tasks'[t].pc = "ready")
                => tasks'[t].dois = load_processed_dois(store)
          /\ (TaskProcessStep(t) /\ is_some(TaskCandidateId(t)))
                => (tasks'[t].kind = "accepted"
                       <=> unwrap(TaskCandidateId(t)) \notin tasks[t].dois)]_vars

\* Both tasks loaded the empty file, both accepted IdA and wrote their blocks
C16_Witness ==
    /\ \A t \in Tasks : /\ tasks[t].pc = "done"
                        /\ tasks[t].base = 0
                        /\ tasks[t].accepted = 1
                        /\ IdA \in tasks[t].dois
    /\ DoiLines(store, 0, IdA) = 2

(***************************************************************************)
(* The progress log (main.rs 272-284, web.rs 237-249): a Vec behind a      *)
(* Mutex that the background runs (DOIScraper::log) and the web handlers   *)
(* (add_log) append to. An entry is modelled by its ordinal among all the  *)
(* entries ever pushed.                                                    *)
(***************************************************************************)
\* main.rs 279, web.rs 243: the cap of the buffer
LogCap == 500

\* The number of appends a behaviour goes up to
MaxAppends == 503

\* The newest entry removed
EvictNewest(buffer) ==
    IF Len(buffer) > LogCap THEN SubSeq(buffer, 1, Len(buffer) - 1) ELSE buffer

\* main.rs 279-281, web.rs 243-245: if logs.len() > 500 { logs.remove(0); }
EvictOldest(buffer) ==
    IF Len(buffer) > LogCap THEN Tail(buffer) ELSE buffer

\* main.rs 275, web.rs 241: log.lock() returns once the lock is free
Lock(t) ==
    /\ lpc[t] = "out"
    /\ holder = "free"
    /\ appended < MaxAppends
    /\ holder' = t
    /\ lpc' = [lpc EXCEPT ![t] = "locked"]
    /\ UNCHANGED <<logs, appended, runVars, vpc, vin, vout, tasks>>

\* main.rs 278, web.rs 242: logs.push(log_entry)
Push(t) ==
    /\ lpc[t] = "locked"
    /\ logs' = Append(logs, appended + 1)
    /\ appended' = appended + 1
    /\ lpc' = [lpc EXCEPT ![t] = "pushed"]
    /\ UNCHANGED <<holder, runVars, vpc, vin, vout, tasks>>

\* main.rs 279-281, web.rs 243-245
Evict(t) ==
    /\ lpc[t] = "pushed"
    /\ logs' = EvictOldest(logs)
    /\ lpc' = [lpc EXCEPT ![t] = "checked"]
    /\ UNCHANGED <<holder, appended, runVars, vpc, vin, vout, tasks>>

\* main.rs 282, web.rs 246: the guard goes out of scope
Unlock(t) ==
    /\ lpc[t] = "checked"
    /\ holder' = "free"
    /\ lpc' = [lpc EXCEPT ![t] = "out"]
    /\ UNCHANGED <<logs, appended, runVars, vpc, vin, vout, tasks>>

NextLog ==
    \E t \in Threads :
        \/ Lock(t)
        \/ Push(t)
        \/ Evict(t)
        \/ Unlock(t)

SpecLog == Init /\ [][NextLog]_vars

(***************************************************************************)
(* Properties of the progress log                                          *)
(***************************************************************************)
\* C17: whenever the lock is free the buffer holds at most 500 entries: they
\* are the newest ones ever appended, without a gap and in the order of
\* their appends, so an append to a full buffer has evicted exactly the
\* oldest entry. Inside the lock the buffer holds at most 501.
C17_LogCapped ==
    /\ Len(logs) <= LogCap + 1
    /\ \A t \in Threads : lpc[t] # "out" <=> holder = t
    /\ holder = "free"
          => /\ Len(logs) = (IF appended < LogCap THEN appended ELSE LogCap)
             /\ \A k \in 1..Len(logs) : logs[k] = appended - Len(logs) + k

\* The lock is free after two appends to a full buffer
C17_Witness ==
    /\ holder = "free"
    /\ appended = LogCap + 2
    /\ Len(logs) = LogCap
    /\ logs[1] = 3

(***************************************************************************)
(* clean_doi alone (main.rs 298-312), applied once and twice to texts      *)
(* built from the three prefixes, a DOI and surrounding whitespace.        *)
(***************************************************************************)
\* The number of prefixes in front of the DOI goes up to
MaxPrefixes == 2

\* The prefixes clean_doi knows
CleanPrefixes == {Https \o DoiOrgSlash, Http \o DoiOrgSlash, DoiColon}

\* Whitespace around the text
CleanPadding == {<< >>, <<" ">>, <<"\n">>}

CleanInputs ==
    { [text |-> lead \o join(ps, << >>) \o id \o trail, prefixes |-> Len(ps)] :
        lead \in CleanPadding, ps \in SeqsUpTo(CleanPrefixes, MaxPrefixes),
        id \in {IdA, IdB}, trail \in CleanPadding }

InitClean ==
    /\ InitRun
    /\ vpc = "called"
    /\ vin \in CleanInputs
    /\ vout = NoVout
    /\ InitLog
    /\ InitTasks

\* clean_doi on the text, and on its own result
Clean ==
    /\ vpc = "called"
    /\ vout' = [once |-> clean_doi(vin.text),
                twice |-> clean_doi(clean_doi(vin.text))]
    /\ vpc' = "returned"
    /\ UNCHANGED <<vin, runVars, logVars, tasks>>

NextClean == Clean

SpecClean == InitClean /\ [][NextClean]_vars

(***************************************************************************)
(* Properties of clean_doi                                                 *)
(***************************************************************************)
\* C18: cleaning is idempotent on every text built from the prefixes
\* https://doi.org/, http://doi.org/ and doi:, repeated or combined, with
\* surrounding whitespace, followed by a DOI.
C18_CleanIdempotent ==
    vpc = "returned" => vout.twice = vout.once

(***************************************************************************)
(* extract_doi_from_url alone (main.rs 321-341), on URLs drawn from        *)
(* bounded sets.                                                           *)
(***************************************************************************)
\* An arXiv identifier
ArxivNumber == <<"2", "3", "0", "1", ".", "1", "2", "3", "4", "5">>

\* What follows a doi.org/ marker in the URLs
DoiSegments == {IdA, IdB, IdShort, <<"x">>, << >>}

\* URLs with one doi.org/ marker, and with two
DoiOrgUrls ==
    {Https \o DoiOrgSlash \o a : a \in DoiSegments}
    \cup {Https \o DoiOrgSlash \o a \o <<"/">> \o DoiOrgSlash \o b :
            a \in DoiSegments, b \in DoiSegments}

\* URLs of arxiv.org: an /abs/ or /pdf/ segment or another one, an identifier
\* or none, with and without .pdf and a query string
ArxivUrls ==
    {Https \o ArxivOrg \o seg \o id \o ext \o query :
        seg \in {AbsSeg, PdfSeg, <<"/", "l", "i", "s", "t", "/">>},
        id \in {ArxivNumber, << >>},
        ext \in {<< >>, DotPdf},
        query \in {<< >>, <<"?", "x", "=", "1">>}}

ExtractUrls ==
    DoiOrgUrls \cup ArxivUrls
    \cup {UrlPlain, Https \o <<"x", ".", "o", "r", "g", "/">> \o IdA}

InitExtract ==
    /\ InitRun
    /\ vpc = "called"
    /\ vin \in {[url |-> u] : u \in ExtractUrls}
    /\ vout = NoVout
    /\ InitLog
    /\ InitTasks

Extract ==
    /\ vpc = "called"
    /\ vout' = extract_doi_from_url(vin.url)
    /\ vpc' = "returned"
    /\ UNCHANGED <<vin, runVars, logVars, tasks>>

NextExtract == Extract

SpecExtract == InitExtract /\ [][NextExtract]_vars

(***************************************************************************)
(* Properties of extract_doi_from_url                                      *)
(***************************************************************************)
\* The text after the last doi.org/ marker of a URL, normalized
AfterLastMarker(url) ==
    clean_doi(split(url, DoiOrgSlash)[Len(split(url, DoiOrgSlash))])

\* C19: for a URL with one or more doi.org/ markers whose normalized text
\* after the last marker matches the DOI pattern, the extraction yields that
\* text.
C19_AfterLastMarker ==
    (/\ vpc = "returned"
     /\ contains(vin.url, DoiOrgSlash)
     /\ doi_regex_is_match(AfterLastMarker(vin.url)))
    => vout = Some(AfterLastMarker(vin.url))

\* The /abs/ or /pdf/ segment of an arxiv.org URL, if it has one
ArxivSegment(url) ==
    IF contains(url, AbsSeg) THEN Some(AbsSeg)
    ELSE IF contains(url, PdfSeg) THEN Some(PdfSeg)
    ELSE None

\* The text after the first occurrence of seg
AfterSegment(url, seg) == DropFirst(url, IndexOf(url, seg) + Len(seg) - 1)

\* text without its query string
WithoutQuery(text) ==
    IF contains(text, <<"?">>) THEN Slice(text, 1, IndexOf(text, <<"?">>) - 1)
    ELSE text

\* text without one trailing .pdf
WithoutPdf(text) ==
    IF ends_with(text, DotPdf) THEN Slice(text, 1, Len(text) - Len(DotPdf))
    ELSE text

\* The fragment of an arxiv.org URL the claim takes as <id>
ArxivFragment(url) ==
    WithoutPdf(WithoutQuery(AfterSegment(url, unwrap(ArxivSegment(url)))))

\* C20: for an arxiv.org URL without a valid doi.org suffix that has an /abs/
\* or /pdf/ segment, the extraction yields arXiv:<id>, <id> being the text
\* after the segment without query string and trailing .pdf, and <id> is not
\* empty.
C20_ArxivId ==
    (/\ vpc = "returned"
     /\ contains(vin.url, ArxivOrg)
     /\ is_none(DoiOrgId(vin.url))
     /\ is_some(ArxivSegment(vin.url)))
    => /\ vout = Some(ArxivPrefix \o ArxivFragment(vin.url))
       /\ ArxivFragment(vin.url) # << >>

(***************************************************************************)
(* load_processed_dois alone (main.rs 286-296), on files drawn from        *)
(* bounded sets: read is what fs::read_to_string returns, Err or the lines *)
(* of the file.                                                            *)
(***************************************************************************)
\* The number of lines of a file goes up to
MaxFileLines == 2

\* The lines a file can hold
FileLines ==
    { IdA \o <<"|", "t">>,
      <<" ">> \o IdA \o <<" ", "|", "t">>,
      IdB,
      << >>,
      <<"|", "x">>,
      DoiLabel \o IdA,
      IdB \o <<"|", "a", "|", "b">> }

ReadErr == [ok |-> FALSE, lines |-> << >>]

ReadOk(file) == [ok |-> TRUE, lines |-> file]

LoadInputs ==
    {ReadErr} \cup {ReadOk(f) : f \in SeqsUpTo(FileLines, MaxFileLines)}

\* main.rs 288: if let Ok(contents) = fs::read_to_string(filepath)
LoadFrom(read) == IF read.ok THEN load_processed_dois(read.lines) ELSE {}

InitLoad ==
    /\ InitRun
    /\ vpc = "called"
    /\ vin \in LoadInputs
    /\ vout = NoVout
    /\ InitLog
    /\ InitTasks

Load ==
    /\ vpc = "called"
    /\ vout' = LoadFrom(vin)
    /\ vpc' = "returned"
    /\ UNCHANGED <<vin, runVars, logVars, tasks>>

NextLoad == Load

SpecLoad == InitLoad /\ [][NextLoad]_vars

(***************************************************************************)
(* Properties of load_processed_dois                                       *)
(***************************************************************************)
\* The text of a line up to its first '|', the whole line when it has none
FirstField(l) ==
    IF contains(l, <<"|">>) THEN Slice(l, 1, IndexOf(l, <<"|">>) - 1) ELSE l

\* C21: load returns exactly the trimmed first '|'-fields of the lines of the
\* file, and the empty set when the file cannot be read; after loading a
\* file with a line X|... the set contains X.
C21_LoadFirstFields ==
    vpc = "returned"
    => /\ ~vin.ok => vout = {}
       /\ vin.ok => vout = {trim(FirstField(vin.lines[k])) : k \in DOMAIN vin.lines}
       /\ \A k \in DOMAIN vin.lines :
             starts_with(vin.lines[k], IdA \o <<"|">>) => IdA \in vout

\* A file with a line 10.1234/a|t and a line with a padded first field
C21_Witness ==
    /\ vpc = "returned"
    /\ vin.ok
    /\ Len(vin.lines) = 2
    /\ vin.lines[1] = IdA \o <<"|", "t">>
    /\ vin.lines[2] = IdB \o <<"|", "a", "|", "b">>
    /\ vout = {IdA, IdB}

(***************************************************************************)
(* The results reader of the web interface (web.rs 143-235) on the file    *)
(* save_doi writes for one record (main.rs 685-695), the record drawn from *)
(* bounded sets. The request carries no search term.                       *)
(***************************************************************************)
\* str::trim_start_matches(pat): pat removed from the start as often as it
\* occurs
RECURSIVE trim_start_matches(_, _)
trim_start_matches(s, p) ==
    IF Len(p) > 0 /\ starts_with(s, p)
    THEN trim_start_matches(DropFirst(s, Len(p)), p)
    ELSE s

\* web.rs 167-174: the PaperResult a separator line starts
EmptyPaper ==
    [doi |-> << >>, title |-> << >>, url |-> << >>, score |-> 0,
     abstract_text |-> << >>, timestamp |-> << >>]

\* The reader before the first line: current_paper, abstract_lines,
\* in_abstract, results
ReaderStart ==
    [current_paper |-> None, abstract_lines |-> << >>, in_abstract |-> FALSE,
     results |-> << >>]

\* web.rs 156-159 and 222-224: the abstract lines joined into the paper
WithAbstract(paper, abstract_lines) ==
    IF abstract_lines # << >>
    THEN [paper EXCEPT !.abstract_text = trim(join(abstract_lines, <<" ">>))]
    ELSE paper

\* web.rs 161-164 and 226-228: only papers with score > 0.0 are pushed
PushPaper(results, paper) ==
    IF paper.score > 0 THEN Append(results, paper) ELSE results

\* web.rs 155-176: a line that starts with ====
OnSeparator(rd) ==
    [current_paper |-> Some(EmptyPaper),
     abstract_lines |-> IF is_some(rd.current_paper) THEN << >> ELSE rd.abstract_lines,
     in_abstract |-> FALSE,
     results |-> IF is_some(rd.current_paper)
                 THEN PushPaper(rd.results,
                                WithAbstract(unwrap(rd.current_paper), rd.abstract_lines))
                 ELSE rd.results]

\* web.rs 177-203: a field line; the field of the current paper is set
OnField(rd, paper) ==
    [rd EXCEPT !.current_paper = IF is_some(@) THEN Some(paper) ELSE @,
               !.in_abstract = FALSE]

\* web.rs 192-198: the score line; a text that is no number leaves the score
ScoreOfLine(line, old) ==
    unwrap_or(parse_f32(trim_start_matches(line, ScoreLabel)), old)

\* web.rs 154-210: one line of the file
ReadLine(rd, line) ==
    IF starts_with(line, <<"=", "=", "=", "=">>) THEN OnSeparator(rd)
    ELSE IF \E lab \in {DoiLabel, TitleLabel, UrlLabel, ScoreLabel, SavedLabel} :
               starts_with(line, lab)
    THEN IF is_none(rd.current_paper) THEN [rd EXCEPT !.in_abstract = FALSE]
         ELSE IF starts_with(line, DoiLabel)
         THEN OnField(rd, [unwrap(rd.current_paper) EXCEPT
                             !.doi = trim_start_matches(line, DoiLabel)])
         ELSE IF starts_with(line, TitleLabel)
         THEN OnField(rd, [unwrap(rd.current_paper) EXCEPT
                             !.title = trim_start_matches(line, TitleLabel)])
         ELSE IF starts_with(line, UrlLabel)
         THEN OnField(rd, [unwrap(rd.current_paper) EXCEPT
                             !.url = trim_start_matches(line, UrlLabel)])
         ELSE IF starts_with(line, ScoreLabel)
         THEN OnField(rd, [unwrap(rd.current_paper) EXCEPT
                             !.score = ScoreOfLine(line, @)])
         ELSE OnField(rd, [unwrap(rd.current_paper) EXCEPT
                             !.timestamp = trim_start_matches(line, SavedLabel)])
    ELSE IF starts_with(line, AbstractLabel)
    THEN [rd EXCEPT !.in_abstract = TRUE, !.abstract_lines = << >>]
    ELSE IF rd.in_abstract /\ trim(line) # << >>
    THEN [rd EXCEPT !.abstract_lines = Append(@, trim(line))]
    ELSE rd

\* web.rs 153-211: the lines of the file from line k on
RECURSIVE ReadLines(_, _, _)
ReadLines(rd, file, k) ==
    IF k > Len(file) THEN rd ELSE ReadLines(ReadLine(rd, file[k]), file, k + 1)

\* [T]::reverse()
reverse(q) == [k \in 1..Len(q) |-> q[Len(q) + 1 - k]]

\* web.rs 143-235 with query.q = None: the records returned for the file
get_results(file) ==
    reverse(OnSeparator(ReadLines(ReaderStart, file, 1)).results)

\* The records written: with and without identifier; the title empty, plain
\* or beginning with a field label; the score 0.00 or more; the abstract of
\* one line, or with a second line that begins with a field label or ====
ReadPapers ==
    { [title |-> t, url |-> UrlDoiA, doi |-> d, abstract_text |-> a,
       relevance_score |-> sc] :
        t \in {TitleX, << >>, TitleLabel \o TitleX},
        d \in {Some(IdA), None},
        sc \in {0, 70, 80},
        a \in { <<"a">>,
                <<"a", "\n">> \o DoiLabel \o IdB,
                <<"a", "\n">> \o ScoreLabel \o <<"0", ".", "1", "0">>,
                <<"a", "\n", "=", "=", "=", "=">> } }

InitRead ==
    /\ InitRun
    /\ vpc = "called"
    /\ vin \in ReadPapers
    /\ vout = NoVout
    /\ InitLog
    /\ InitTasks

\* save_doi writes the record to an empty file, get_results reads the file
Read ==
    /\ vpc = "called"
    /\ vout' = get_results(SaveDoiAppend(<< >>, vin, NumWrites))
    /\ vpc' = "returned"
    /\ UNCHANGED <<vin, runVars, logVars, tasks>>

NextRead == Read

SpecRead == InitRead /\ [][NextRead]_vars

(***************************************************************************)
(* Properties of the results reader                                        *)
(***************************************************************************)
\* C22: the block save_doi appended for a record is returned by the results
\* reader as exactly one record with the same identifier (or NA), title, URL
\* and score, whatever the record's title, abstract and score.
C22_RoundTrip ==
    vpc = "returned"
    => /\ Len(vout) = 1
       /\ vout[1].doi = unwrap_or(vin.doi, NA)
       /\ vout[1].title = vin.title
       /\ vout[1].url = vin.url
       /\ vout[1].score = vin.relevance_score

(***************************************************************************)
(* fetch_doi_metadata alone (main.rs 343-441), on the answers of the three *)
(* sources drawn from bounded sets.                                        *)
(***************************************************************************)
\* What a source can answer: no data, a title with an abstract, a title
\* alone, an empty title
SourceAnswers ==
    { SrcFail, SrcOk(TitleApi, repeat("m", 120)), SrcOk(TitleX, << >>),
      SrcOk(<< >>, repeat("m", 120)) }

\* The answers of <<doi.org, CrossRef, DataCite>>; doi.org can also answer
\* with a title that is the empty array
LookupInputs ==
    { <<a, b, c>> : a \in SourceAnswers \cup {SrcEmptyArray},
                    b \in SourceAnswers, c \in SourceAnswers }

InitLookup ==
    /\ InitRun
    /\ vpc = "called"
    /\ vin \in LookupInputs
    /\ vout = NoVout
    /\ InitLog
    /\ InitTasks

Lookup ==
    /\ vpc = "called"
    /\ vout' = fetch_doi_metadata(vin)
    /\ vpc' = "returned"
    /\ UNCHANGED <<vin, runVars, logVars, tasks>>

NextLookup == Lookup

SpecLookup == InitLookup /\ [][NextLookup]_vars

(***************************************************************************)
(* Properties of fetch_doi_metadata                                        *)
(***************************************************************************)
\* The sources whose answer carries a non-empty title
Titled(api) == {k \in 1..3 : api[k].kind = "ok" /\ api[k].title # << >>}

\* The first of them
FirstTitled(api) == CHOOSE k \in Titled(api) : \A j \in Titled(api) : k <= j

\* C25: the three sources are contacted in the order doi.org, CrossRef,
\* DataCite; a source is contacted only if every earlier one failed or gave
\* an empty title; the chain stops at the first source with a non-empty title
\* and returns its (title, abstract); no answer of a source keeps the next
\* one from being tried.
C25_ChainInOrder ==
    vpc = "returned"
    => /\ ~vout.panic
       /\ Titled(vin) # {}
             => /\ vout.ok
                /\ vout.contacted = FirstTitled(vin)
                /\ vout.title = vin[FirstTitled(vin)].title
                /\ vout.abstract = vin[FirstTitled(vin)].abstract
       /\ Titled(vin) = {}
             => /\ ~vout.ok
                /\ vout.contacted = 3


(***************************************************************************)
(* The time_range parameter of search_searxng alone: one call on a value   *)
(* of --time-range drawn from a bounded set                                *)
(***************************************************************************)
\* u32::MAX, as u32 prints it
U32MaxDigits == <<"4", "2", "9", "4", "9", "6", "7", "2", "9", "5">>

\* The digits ds without their leading zeros: how a u32 of that value prints
Canonical(ds) ==
    LET nz == RunLen(ds, 1, {"0"})
    IN IF nz = Len(ds) THEN <<"0">> ELSE DropFirst(ds, nz)

\* The number written by the digits a is at most the one written by b, for
\* a and b without leading zeros
DigitsLeq(a, b) ==
    \/ Len(a) < Len(b)
    \/ /\ Len(a) = Len(b)
       /\ \/ a = b
          \/ \E k \in 1..Len(a) :
                /\ DigitVal[a[k]] < DigitVal[b[k]]
                /\ \A j \in 1..(k - 1) : a[j] = b[j]

\* str::parse::<u32>() that takes any number of digits
parse_u32_unbounded(w) ==
    LET body == IF Len(w) > 0 /\ w[1] = "+" THEN DropFirst(w, 1) ELSE w
    IN IF Len(body) > 0 /\ RunLen(body, 1, Digits) = Len(body)
       THEN Some(Canonical(body)) ELSE None

\* str::parse::<u32>() (main.rs 765): an optional "+" and at least one decimal
\* digit, nothing else; None for the empty text, a "-", any other character
\* and a value above u32::MAX. The number is kept as the digits it prints
\* with.
parse_u32(w) ==
    LET body == IF Len(w) > 0 /\ w[1] = "+" THEN DropFirst(w, 1) ELSE w
    IN IF /\ Len(body) > 0
          /\ RunLen(body, 1, Digits) = Len(body)
          /\ DigitsLeq(Canonical(body), U32MaxDigits)
       THEN Some(Canonical(body)) ELSE None

Day == <<"d", "a", "y">>

Week == <<"w", "e", "e", "k">>

Month == <<"m", "o", "n", "t", "h">>

Year == <<"y", "e", "a", "r">>

\* main.rs 761
standard_ranges == {Day, Week, Month, Year}

\* main.rs 763-765: the slice is taken only of a text that ends with the four
\* bytes of "year", so it ends on a character boundary
is_multiyear(time_range_value) ==
    /\ ends_with(time_range_value, Year)
    /\ Len(time_range_value) > 4
    /\ is_some(parse_u32(Slice(time_range_value, 1, Len(time_range_value) - 4)))

\* The time_range branch of search_searxng (main.rs 758-781): the value put
\* into the query (None when the parameter is left out), which message is
\* logged, and the number of years shown in the multi-year warning
TimeRangeParam(time_range) ==
    IF time_range = << >>
    THEN [time_range |-> None, logged |-> "nothing", years |-> None]
    ELSE IF is_multiyear(time_range)
    THEN [time_range |-> Some(Year), logged |-> "multiyear_warning",
          years |-> parse_u32(Slice(time_range, 1, Len(time_range) - 4))]
    ELSE IF time_range \in standard_ranges
    THEN [time_range |-> Some(time_range), logged |-> "applied", years |-> None]
    ELSE [time_range |-> None, logged |-> "invalid_warning", years |-> None]

\* What comes before the unit in the values of --time-range tried
RangeNumbers ==
    { << >>,
      <<"5">>,
      <<"1", "0">>,
      <<"+", "5">>,
      <<"-", "5">>,
      <<"5", ".", "5">>,
      <<"4", "2", "9", "4", "9", "6", "7", "2", "9", "5">>,
      <<"4", "2", "9", "4", "9", "6", "7", "2", "9", "6">>,
      <<" ", "5">>,
      <<"0">>,
      <<"0", "0", "5">>,
      <<"+">>,
      <<"x">>,
      <<"5", " ">> }

\* The units tried
RangeUnits ==
    { <<"y", "e", "a", "r">>,
      <<"d", "a", "y">>,
      <<"w", "e", "e", "k">>,
      <<"m", "o", "n", "t", "h">>,
      <<"y", "e", "a", "r", "s">>,
      <<"Y", "e", "a", "r">>,
      << >>,
      <<"y", "e", "a">> }

TimeRangeInputs == {n \o u : n \in RangeNumbers, u \in RangeUnits}

InitTimeRange ==
    /\ InitRun
    /\ vpc = "called"
    /\ vin \in TimeRangeInputs
    /\ vout = NoVout
    /\ InitLog
    /\ InitTasks

BuildParams ==
    /\ vpc = "called"
    /\ vout' = TimeRangeParam(vin)
    /\ vpc' = "returned"
    /\ UNCHANGED <<vin, runVars, logVars, tasks>>

NextTimeRange == BuildParams

SpecTimeRange == InitTimeRange /\ [][NextTimeRange]_vars

(***************************************************************************)
(* Properties of the time_range parameter                                 *)
(***************************************************************************)
\* The text before the last four characters of s
BeforeUnit(s) == Slice(s, 1, Len(s) - 4)

\* s without the "+" sign it may start with
Unsigned(s) == IF Len(s) > 0 /\ s[1] = "+" THEN DropFirst(s, 1) ELSE s

\* s is a decimal number: one digit or more after the sign, and nothing else
IsDecimal(s) ==
    /\ Len(Unsigned(s)) > 0
    /\ \A k \in 1..Len(Unsigned(s)) : Unsigned(s)[k] \in Digits

\* The value sent is day, week, month or year, or the parameter is left out
SentIsStandard ==
    vout.time_range \in {None, Some(Day), Some(Week), Some(Month), Some(Year)}

SentAsYear == vout.time_range = Some(Year) /\ vout.logged = "multiyear_warning"

Omitted == vout.time_range = None /\ vout.logged = "invalid_warning"

\* C34: the time_range sent is day, week, month or year, or it is left out;
\* a decimal number, with or without a "+" sign, followed by "year" is sent
\* as year with a warning and any other unrecognized value is left out with
\* a warning.
C34_MultiYearIsYear ==
    vpc = "returned"
    => /\ SentIsStandard
       /\ vin \in standard_ranges => vout.time_range = Some(vin)
       /\ (vin # << >> /\ vin \notin standard_ranges)
             => IF ends_with(vin, Year) /\ IsDecimal(BeforeUnit(vin))
                THEN SentAsYear ELSE Omitted

\* s is a number of years a u32 holds: decimal digits after an optional "+",
\* of a value up to 4294967295 = 42949 * 10^5 + 67295
IsU32Years(s) ==
    LET digits == Unsigned(s)
        high == DecVal(Slice(digits, 1, Len(digits) - 5))
        low == DecVal(Slice(digits, Len(digits) - 4, Len(digits)))
    IN /\ IsDecimal(s)
       /\ Len(digits) <= 10 \/ \A k \in 1..(Len(digits) - 10) : digits[k] = "0"
       /\ Len(digits) > 5 => (high < 42949 \/ (high = 42949 /\ low <= 67295))

\* C34 (amended): the time_range sent is day, week, month or year, or it is
\* left out; a number of years that a u32 holds, with or without a "+" sign,
\* followed by "year" is sent as year with a warning that shows the number,
\* and any other unrecognized value, a larger number of years among them, is
\* left out with a warning.
C34_U32YearsIsYear ==
    vpc = "returned"
    => /\ SentIsStandard
       /\ vin \in standard_ranges => vout.time_range = Some(vin)
       /\ vin = << >> => (vout.time_range = None /\ vout.logged = "nothing")
       /\ (vin # << >> /\ vin \notin standard_ranges)
             => IF ends_with(vin, Year) /\ IsU32Years(BeforeUnit(vin))
                THEN SentAsYear /\ is_some(vout.years)
                ELSE Omitted

\* 4294967296year was left out with the warning of an invalid range
C34_Witness ==
    /\ vpc = "returned"
    /\ vin = <<"4", "2", "9", "4", "9", "6", "7", "2", "9", "6">> \o Year
    /\ Omitted


(***************************************************************************)
(* safe_truncate alone: one call on a text drawn from a bounded set. Here  *)
(* a text is the sequence of its UTF-8 bytes, a byte being the character   *)
(* it belongs to and its place in that character's encoding.               *)
(***************************************************************************)
\* The most characters that follow the padding of a text
MaxTail == 2

\* The limit validate_with_ai truncates the abstract to (main.rs 530)
PromptLimit == 400

\* Characters of one, two, three and four bytes: a, e acute, the euro sign
\* and an emoji
Utf8Width == [c \in {"a", "eacute", "euro", "emoji"} |->
                 CASE c = "a" -> 1 [] c = "eacute" -> 2 [] c = "euro" -> 3
                   [] c = "emoji" -> 4]

\* The bytes of one character
Utf8Char(c) == [k \in 1..Utf8Width[c] |-> [ch |-> c, k |-> k]]

\* The bytes of a sequence of characters: those of its first half, then
\* those of its second half
RECURSIVE Utf8(_)
Utf8(chars) ==
    IF Len(chars) = 0 THEN << >>
    ELSE IF Len(chars) = 1 THEN Utf8Char(chars[1])
    ELSE Utf8(Slice(chars, 1, Len(chars) \div 2))
            \o Utf8(Slice(chars, Len(chars) \div 2 + 1, Len(chars)))

\* Every index taken for a character boundary
is_char_boundary_anywhere(s, index) == TRUE

\* str::is_char_boundary, as called at main.rs 166: 0 and s.len() are
\* boundaries, an index beyond the end is none, and an index within is a
\* boundary when the byte there is not a continuation byte
is_char_boundary(s, index) ==
    IF index = 0 THEN TRUE
    ELSE IF index >= Len(s) THEN index = Len(s)
    ELSE s[index + 1].k = 1

\* main.rs 165-168: the loop that steps end back to a character boundary
RECURSIVE StepBack(_, _)
StepBack(s, end) ==
    IF end > 0 /\ ~is_char_boundary(s, end) THEN StepBack(s, end - 1) ELSE end

\* main.rs 159-170
safe_truncate(s, max_len) ==
    IF Len(s) <= max_len THEN s
    ELSE Slice(s, 1, StepBack(s, max_len))

\* The texts tried: up to MaxTail characters of any width, alone or after a
\* padding of one-byte characters that ends at most six bytes before the
\* limit
TailChars == SeqsUpTo(DOMAIN Utf8Width, MaxTail)

PadLens == {0} \cup ((PromptLimit - 6)..PromptLimit)

TruncateInputs == {repeat("a", n) \o t : n \in PadLens, t \in TailChars}

InitTruncate ==
    /\ InitRun
    /\ vpc = "called"
    /\ vin \in TruncateInputs
    /\ vout = NoVout
    /\ InitLog
    /\ InitTasks

\* main.rs 530: the abstract, as bytes, truncated for the prompt
Truncate ==
    /\ vpc = "called"
    /\ vout' = safe_truncate(Utf8(vin), PromptLimit)
    /\ vpc' = "returned"
    /\ UNCHANGED <<vin, runVars, logVars, tasks>>

NextTruncate == Truncate

SpecTruncate == InitTruncate /\ [][NextTruncate]_vars

(***************************************************************************)
(* Properties of safe_truncate                                            *)
(***************************************************************************)
\* The encodings of the first k characters of chars, for every k: the
\* prefixes of the text that end on a character boundary
WholePrefixes(chars) == {Utf8(Slice(chars, 1, k)) : k \in 0..Len(chars)}

\* C35: the abstract truncated for the prompt is a prefix of the text, has
\* at most 400 bytes and ends on a character boundary; it is the text
\* itself when that has at most 400 bytes, and no longer prefix has these
\* properties.
C35_LongestWholePrefix ==
    vpc = "returned"
    => /\ vout \in WholePrefixes(vin)
       /\ Len(vout) <= PromptLimit
       /\ Len(Utf8(vin)) <= PromptLimit => vout = Utf8(vin)
       /\ \A q \in WholePrefixes(vin) : Len(q) <= PromptLimit => Len(q) <= Len(vout)

\* A text of 402 bytes whose byte 400 is the first of a three-byte character
\* was cut to 399 bytes
C35_Witness ==
    /\ vpc = "returned"
    /\ vin = repeat("a", PromptLimit - 1) \o <<"euro">>
    /\ Len(vout) = PromptLimit - 1

====
